---------------------------- MODULE Spec2Model ----------------------------
(***************************************************************************)
(* A model of archivey's reader framework: the member registry and its     *)
(* link resolution (base_reader.py), the iteration protocol of the         *)
(* default, TAR and RAR-stream readers, and registration under threads.    *)
(*                                                                         *)
(* Strings are sequences of one-character strings, so that the POSIX path  *)
(* functions are computed character by character as posixpath does.       *)
(* Members are objects: `members` is the heap, indexed by the order in     *)
(* which the adapter built them, and the indices hold references into it.  *)
(***************************************************************************)
EXTENDS Integers, Sequences, FiniteSets, TLC

VARIABLES
    member_id_counter,      \* ArchiveReader._member_id_counter
    members,                \* the ArchiveMember objects built so far, with their fields
    member_id_to_member,    \* ArchiveReader._member_id_to_member: its values, in key insertion order
    filename_to_members,    \* ArchiveReader._filename_to_members: filename -> list of members
    normalized_path_to_last_member, \* ArchiveReader._normalized_path_to_last_member
    all_members_registered, \* ArchiveReader._all_members_registered
    ret,                    \* what the last caller-visible operation returned or raised
    pc,                     \* thread -> where it stands inside register_member
    cur,                    \* thread -> the member it is registering
    member_id_lock,         \* ArchiveReader._member_id_lock: the thread holding it
    alloc_order,            \* history: the members in the order they passed the lock
    kind,                   \* which reader class this reader is
    archive,                \* the decoder's records, in archive order
    tar_check_integrity,    \* ArchiveyConfig.tar_check_integrity
    fileobj_seekable,       \* what TarReader._fileobj.seekable() returns
    trailer,                \* the blocks of a TAR file after its last record
    members_cache,          \* ZipReader._members / BaseRarReader._members
    tar_members_read,       \* len(TarFile.members): the records tarfile has read
    tar_loaded,             \* TarFile._loaded
    gen,                    \* the frame of the live iter_members_with_io generator
    iters,                  \* history: what each iter_members_with_io call yielded
    archive_open,           \* the reader's _archive is not None
    fileobj_open,           \* TarReader._fileobj is an open file
    closes,                 \* history: the close() calls that have returned
    scope,                  \* where the consumer stands in a `with reader:` block
    sizes,                  \* file_size of each record of a RAR archive
    list_fails,             \* the RAR decoder raises while the member list is built
    crc_fails,              \* the CRC stored for a member is not that of its data
    encryption,             \* the encryption record of each record of a RAR archive
    reader_pwd,             \* RarStreamReader._pwd
    proc,                   \* the unrar subprocess of RarStreamReader
    pipe,                   \* the subprocess's stdout: unread bytes, closed or not
    lock,                   \* the threading.Lock the member streams share: its holder
    rs,                     \* the frame of RarStreamReader.iter_members_with_io
    ms,                     \* member -> the RarStreamMemberFile yielded for it
    blocked                 \* the consumer's thread waits for a lock forever

tarvars == <<tar_check_integrity, fileobj_seekable, trailer>>

regvars == <<member_id_counter, members, member_id_to_member, filename_to_members,
             normalized_path_to_last_member, all_members_registered>>

concvars == <<pc, cur, member_id_lock, alloc_order>>

vars == <<member_id_counter, members, member_id_to_member, filename_to_members,
          normalized_path_to_last_member, all_members_registered, ret,
          pc, cur, member_id_lock, alloc_order,
          kind, archive, tarvars, members_cache, tar_members_read, tar_loaded, gen, iters,
          archive_open, fileobj_open, closes, scope,
          sizes, list_fails, crc_fails, encryption, reader_pwd,
          proc, pipe, lock, rs, ms, blocked>>

lifevars == <<archive_open, fileobj_open, closes, scope>>

streamvars == <<sizes, list_fails, crc_fails, encryption, reader_pwd,
                proc, pipe, lock, rs, ms, blocked>>

readervars == <<kind, archive, tarvars, members_cache, tar_members_read, tar_loaded, gen, iters,
                lifevars, streamvars>>

----------------------------------------------------------------------------
(* Bounds of the model.                                                    *)

\* registrations on one reader in the registry specification
MaxMembers == 3

\* members the two threads register between them
MaxConcMembers == 3

----------------------------------------------------------------------------
(* Values.                                                                 *)

\* the absence of a member reference (link_target_member is None)
NoMember == 0

\* link_target is None
NoTarget == <<"None">>

\* the archive id UNIQUE_ID_GENERATOR gave this reader, and one it gave another
ThisArchiveId == 1
OtherArchiveId == 2

MemberTypes == {"FILE", "DIR", "SYMLINK", "HARDLINK", "OTHER"}

Range(s) == {s[i] : i \in DOMAIN s}

Max(S) == CHOOSE x \in S : \A y \in S : y <= x

\* ArchiveMember.is_link and ArchiveMember.is_file
IsLink(m) == m.type \in {"SYMLINK", "HARDLINK"}
IsFile(m) == m.type = "FILE"

----------------------------------------------------------------------------
(* posixpath, on sequences of characters.                                  *)

DotDot == <<".", ".">>

\* s.find("/"): the first index of a slash, 0 when there is none
FindSlash(s) ==
    IF \E i \in DOMAIN s : s[i] = "/"
    THEN CHOOSE i \in DOMAIN s : s[i] = "/" /\ \A j \in 1..(i - 1) : s[j] # "/"
    ELSE 0

\* s.rfind("/") + 1
RFindSlash(s) ==
    IF \E i \in DOMAIN s : s[i] = "/"
    THEN CHOOSE i \in DOMAIN s : s[i] = "/" /\ \A j \in (i + 1)..Len(s) : s[j] # "/"
    ELSE 0

\* s.split("/")
RECURSIVE SplitSlash(_)
SplitSlash(s) ==
    LET i == FindSlash(s)
    IN  IF i = 0 THEN <<s>>
        ELSE <<SubSeq(s, 1, i - 1)>> \o SplitSlash(SubSeq(s, i + 1, Len(s)))

\* "/".join(comps)
RECURSIVE JoinSlash(_)
JoinSlash(comps) ==
    IF comps = <<>> THEN <<>>
    ELSE IF Len(comps) = 1 THEN comps[1]
    ELSE comps[1] \o <<"/">> \o JoinSlash(Tail(comps))

\* the loop of posixpath.normpath over the components
RECURSIVE NormComps(_, _, _)
NormComps(comps, new_comps, initial_slashes) ==
    IF comps = <<>> THEN new_comps
    ELSE LET comp == Head(comps)
             rest == Tail(comps)
         IN  IF comp = <<>> \/ comp = <<".">>
             THEN NormComps(rest, new_comps, initial_slashes)
             ELSE IF \/ comp # DotDot
                     \/ (initial_slashes = 0 /\ new_comps = <<>>)
                     \/ (new_comps # <<>> /\ new_comps[Len(new_comps)] = DotDot)
             THEN NormComps(rest, Append(new_comps, comp), initial_slashes)
             ELSE IF new_comps # <<>>
             THEN NormComps(rest, SubSeq(new_comps, 1, Len(new_comps) - 1), initial_slashes)
             ELSE NormComps(rest, new_comps, initial_slashes)

\* posixpath.normpath
NormPath(path) ==
    IF path = <<>> THEN <<".">>
    ELSE LET initial_slashes ==
                 IF path[1] # "/" THEN 0
                 ELSE IF Len(path) >= 2 /\ path[2] = "/"
                         /\ ~(Len(path) >= 3 /\ path[3] = "/")
                 THEN 2 ELSE 1
             joined == JoinSlash(NormComps(SplitSlash(path), <<>>, initial_slashes))
             slashes == [i \in 1..initial_slashes |-> "/"]
             result == slashes \o joined
         IN  IF result = <<>> THEN <<".">> ELSE result

\* s.rstrip("/")
RECURSIVE RStripSlash(_)
RStripSlash(s) ==
    IF s # <<>> /\ s[Len(s)] = "/" THEN RStripSlash(SubSeq(s, 1, Len(s) - 1)) ELSE s

\* posixpath.dirname
DirName(p) ==
    LET head == SubSeq(p, 1, RFindSlash(p))
    IN  IF head # <<>> /\ \E i \in DOMAIN head : head[i] # "/"
        THEN RStripSlash(head)
        ELSE head

\* posixpath.join(a, b)
PathJoin(a, b) ==
    IF b # <<>> /\ b[1] = "/" THEN b
    ELSE IF a = <<>> \/ a[Len(a)] = "/" THEN a \o b
    ELSE a \o <<"/">> \o b

----------------------------------------------------------------------------
(* The registry: ArchiveReader.register_member and _resolve_link_target.   *)

\* dict.get(key, default) on a function
Get(f, key, default) == IF key \in DOMAIN f THEN f[key] ELSE default

\* f[key] = value on a dict
Put(f, key, value) ==
    [k \in DOMAIN f \cup {key} |-> IF k = key THEN value ELSE f[k]]

\* a resolver that takes the candidate with the smallest member_id
MinById(mem, S) == CHOOSE c \in S : \A y \in S : mem[c].member_id <= mem[y].member_id

\* max(candidates, key=lambda m: m.member_id)
MaxById(mem, S) == CHOOSE c \in S : \A y \in S : mem[y].member_id <= mem[c].member_id

\* list.sort(key=lambda m: m.member_id): a stable sort of a list of members
RECURSIVE SortByMemberId(_, _)
SortByMemberId(mem, hs) ==
    IF hs = <<>> THEN <<>>
    ELSE LET lo == CHOOSE i \in DOMAIN hs :
                       /\ \A j \in DOMAIN hs : mem[hs[i]].member_id <= mem[hs[j]].member_id
                       /\ \A j \in 1..(i - 1) : mem[hs[j]].member_id # mem[hs[i]].member_id
             rest == [j \in 1..(Len(hs) - 1) |-> IF j < lo THEN hs[j] ELSE hs[j + 1]]
         IN  <<hs[lo]>> \o SortByMemberId(mem, rest)

\* a member as the adapter builds it: no member_id and no archive_id yet
NewMember(rec) ==
    [filename |-> rec.filename, type |-> rec.type, link_target |-> rec.link_target,
     member_id |-> 0, archive_id |-> 0,
     link_target_member |-> NoMember, link_target_type |-> "None"]

\* lines 132-137: the members named link_target with a member_id below the link's
HardlinkCandidates(mem, fnm, h) ==
    {c \in Range(Get(fnm, mem[h].link_target, <<>>)) : mem[c].member_id < mem[h].member_id}

\* lines 161-163: the normalized path a symlink points to
NormalizedLinkTarget(m) ==
    NormPath(PathJoin(DirName(m.filename), m.link_target))

\* a resolver that adopts a hardlink candidate without following it
HardlinkFollowNot(mem, t) == t

\* what a hardlink adopts from a candidate that is itself a hardlink (line 150)
HardlinkFollow(mem, t) == mem[t].link_target_member

\* lines 157-158, 190-191
Adopt(mem, h, t) ==
    [mem EXCEPT ![h].link_target_member = t, ![h].link_target_type = mem[t].type]

\* a resolver in which a symlink adopts what its target link held before the
\* target was resolved again
RECURSIVE ResolveLinkTargetStale(_, _, _, _, _)
ResolveLinkTargetStale(mem, fnm, npm, h, visited_members) ==
    LET member == mem[h]
    IN  IF member.link_target = NoTarget THEN mem
        ELSE IF member.type = "HARDLINK" THEN
            LET cands == HardlinkCandidates(mem, fnm, h)
            IN  IF cands = {} THEN mem
                ELSE LET target_member == MaxById(mem, cands)
                     IN  IF mem[target_member].type = "HARDLINK"
                         THEN LET mem2 == ResolveLinkTargetStale(mem, fnm, npm,
                                                                 target_member, {})
                                  final == HardlinkFollow(mem2, target_member)
                              IN  IF final = NoMember THEN mem2
                                  ELSE Adopt(mem2, h, final)
                         ELSE Adopt(mem, h, target_member)
        ELSE IF member.type = "SYMLINK" THEN
            LET normalized_link_target == NormalizedLinkTarget(member)
                target_member == Get(npm, normalized_link_target, NoMember)
            IN  IF target_member = NoMember THEN mem
                ELSE IF IsLink(mem[target_member])
                THEN IF mem[target_member].member_id \in visited_members THEN mem
                     ELSE LET mem2 == ResolveLinkTargetStale(mem, fnm, npm, target_member,
                                            visited_members \cup {member.member_id})
                              final == mem[target_member].link_target_member
                          IN  IF final = NoMember THEN mem2
                              ELSE Adopt(mem2, h, final)
                ELSE Adopt(mem, h, target_member)
        ELSE mem

\* ArchiveReader._resolve_link_target: the heap after resolving member h.
\* visited_members holds member_ids.
RECURSIVE ResolveLinkTarget(_, _, _, _, _)
ResolveLinkTarget(mem, fnm, npm, h, visited_members) ==
    LET member == mem[h]
    IN  IF member.link_target = NoTarget THEN mem
        ELSE IF member.type = "HARDLINK" THEN
            LET cands == HardlinkCandidates(mem, fnm, h)
            IN  IF cands = {} THEN mem
                ELSE LET target_member == MaxById(mem, cands)
                     IN  IF mem[target_member].type = "HARDLINK"
                         THEN LET mem2 == ResolveLinkTarget(mem, fnm, npm, target_member, {})
                                  final == HardlinkFollow(mem2, target_member)
                              IN  IF final = NoMember THEN mem2
                                  ELSE Adopt(mem2, h, final)
                         ELSE Adopt(mem, h, target_member)
        ELSE IF member.type = "SYMLINK" THEN
            LET normalized_link_target == NormalizedLinkTarget(member)
                target_member == Get(npm, normalized_link_target, NoMember)
            IN  IF target_member = NoMember THEN mem
                ELSE IF IsLink(mem[target_member])
                THEN IF mem[target_member].member_id \in visited_members THEN mem
                     ELSE LET mem2 == ResolveLinkTarget(mem, fnm, npm, target_member,
                                            visited_members \cup {member.member_id})
                              final == mem2[target_member].link_target_member
                          IN  IF final = NoMember THEN mem2
                              ELSE Adopt(mem2, h, final)
                ELSE Adopt(mem, h, target_member)
        ELSE mem

\* line 195: self._member_id_counter += 1
NextMemberId(counter) == counter + 1

\* line 196: member._member_id = self._member_id_counter
AssignMemberId(mem, h, counter) == [mem EXCEPT ![h].member_id = counter]

\* line 197: member._archive_id = self._archive_id
AssignArchiveId(mem, h) == [mem EXCEPT ![h].archive_id = ThisArchiveId]

\* line 199: the assertion fails when the member_id is already a key of by_id
AlreadyRegistered(mem, idm, h) ==
    \E i \in DOMAIN idm : mem[idm[i]].member_id = mem[h].member_id

\* lines 205-208
IndexFilename(mem, fnm, h) ==
    LET members_with_filename == Get(fnm, mem[h].filename, <<>>)
    IN  IF h \in Range(members_with_filename)
        THEN Put(fnm, mem[h].filename, members_with_filename)
        ELSE Put(fnm, mem[h].filename, SortByMemberId(mem, Append(members_with_filename, h)))

\* a path index in which the first member of a path stays
ReplacesIncumbentNever(mem, npm, h) == NormPath(mem[h].filename) \notin DOMAIN npm

\* lines 211-215: whether the member takes the entry of its normalized path
ReplacesIncumbent(mem, npm, h) ==
    LET normalized_path == NormPath(mem[h].filename)
    IN  \/ normalized_path \notin DOMAIN npm
        \/ mem[npm[normalized_path]].member_id < mem[h].member_id

\* line 216
SetNormalizedPath(mem, npm, h) == Put(npm, NormPath(mem[h].filename), h)

\* lines 210-216
IndexNormalizedPath(mem, npm, h) ==
    IF ReplacesIncumbent(mem, npm, h) THEN SetNormalizedPath(mem, npm, h) ELSE npm

\* line 218: by_id[member.member_id] = member, on a dict that keeps insertion order
IndexMemberId(mem, idm, h) ==
    IF AlreadyRegistered(mem, idm, h)
    THEN [i \in DOMAIN idm |->
              IF mem[idm[i]].member_id = mem[h].member_id THEN h ELSE idm[i]]
    ELSE Append(idm, h)

\* a registration that leaves the member out of the index of normalized paths
RegisterMemberUnindexed(reg, rec) ==
    LET h == Len(reg.members) + 1
        counter == NextMemberId(reg.counter)
        mem1 == AssignArchiveId(
                    AssignMemberId(Append(reg.members, NewMember(rec)), h, counter), h)
        fnm1 == IndexFilename(mem1, reg.fnm, h)
        idm1 == IndexMemberId(mem1, reg.idm, h)
    IN  [counter |-> counter,
         members |-> ResolveLinkTarget(mem1, fnm1, reg.npm, h, {}),
         idm |-> idm1, fnm |-> fnm1, npm |-> reg.npm]

\* ArchiveReader.register_member, run by one thread without interruption:
\* the registry [counter, members, idm, fnm, npm] after registering a new
\* member built from rec
RegisterMember(reg, rec) ==
    LET h == Len(reg.members) + 1
        counter == NextMemberId(reg.counter)
        mem1 == AssignArchiveId(
                    AssignMemberId(Append(reg.members, NewMember(rec)), h, counter), h)
    IN  IF AlreadyRegistered(mem1, reg.idm, h)
        THEN [reg EXCEPT !.counter = counter, !.members = mem1]
        ELSE LET fnm1 == IndexFilename(mem1, reg.fnm, h)
                 npm1 == IndexNormalizedPath(mem1, reg.npm, h)
                 idm1 == IndexMemberId(mem1, reg.idm, h)
             IN  [counter |-> counter,
                  members |-> ResolveLinkTarget(mem1, fnm1, npm1, h, {}),
                  idm |-> idm1, fnm |-> fnm1, npm |-> npm1]

\* the registry variables as one record, and back
Registry ==
    [counter |-> member_id_counter, members |-> members, idm |-> member_id_to_member,
     fnm |-> filename_to_members, npm |-> normalized_path_to_last_member]

SetRegistry(reg) ==
    /\ member_id_counter' = reg.counter
    /\ members' = reg.members
    /\ member_id_to_member' = reg.idm
    /\ filename_to_members' = reg.fnm
    /\ normalized_path_to_last_member' = reg.npm

EmptyRegistry ==
    /\ member_id_counter = 0
    /\ members = <<>>
    /\ member_id_to_member = <<>>
    /\ filename_to_members = <<>>
    /\ normalized_path_to_last_member = <<>>
    /\ all_members_registered = FALSE

----------------------------------------------------------------------------
(* The records an adapter may find in an archive (registry specification). *)

Fa == <<"a">>
Fd == <<"d">>
FdSlash == <<"d", "/">>
FdotD == <<".", "/", "d">>
Fds == <<"d", "/", "s">>
FupA == <<".", ".", "/", "a">>

Rec(f, t, l) == [filename |-> f, type |-> t, link_target |-> l]

Records ==
    {Rec(f, "FILE", NoTarget) : f \in {Fa, Fd, FdotD}}
    \cup {Rec(FdSlash, "DIR", NoTarget), Rec(Fa, "OTHER", NoTarget)}
    \cup {Rec(f, "SYMLINK", l) : f \in {Fa, Fd, Fds}, l \in {Fa, Fd, Fds, FupA}}
    \cup {Rec(f, "HARDLINK", l) : f \in {Fa, Fd}, l \in {Fa, Fd}}

LookupNames == {Fa, Fd, FdSlash, Fds}

----------------------------------------------------------------------------
(* Specification Spec: an adapter registers the archive's records one by   *)
(* one (the loop of ZipReader.get_members / BaseRarReader.get_members),    *)
(* marks the registry complete, and callers look members up.               *)

NoRet == [op |-> "none"]

Threads == {1, 2}
NoThread == 0

\* no thread is inside register_member
ThreadsIdle ==
    /\ pc = [t \in Threads |-> "idle"]
    /\ cur = [t \in Threads |-> NoMember]
    /\ member_id_lock = NoThread
    /\ alloc_order = <<>>

\* no generator has been created
NoGen == [state |-> "none"]

\* no unrar subprocess has been started and no member stream handed out
NoStream ==
    /\ sizes = <<>>
    /\ list_fails = FALSE
    /\ crc_fails = FALSE
    /\ encryption = <<>>
    /\ reader_pwd = "None"
    /\ proc = "none"
    /\ pipe = [data |-> <<>>, closed |-> FALSE]
    /\ lock = "free"
    /\ rs = [state |-> "none", list |-> <<>>, idx |-> 0, pwd |-> "None"]
    /\ ms = <<>>
    /\ blocked = FALSE

\* the 512-byte blocks _check_tar_integrity reads after the last record
TrailerBlocks == 2

\* a TAR file that ends with the end-of-archive mark tarfile writes, behind a
\* seekable file object, read under a configuration without the check
IntactTar ==
    /\ tar_check_integrity = FALSE
    /\ fileobj_seekable = TRUE
    /\ trailer = [b \in 1..TrailerBlocks |-> "zero"]

\* the registry is driven directly: no reader class, an open decoder that is
\* never read
NoReader ==
    /\ kind = "none"
    /\ archive = <<>>
    /\ IntactTar
    /\ members_cache = [set |-> FALSE, list |-> <<>>]
    /\ tar_members_read = 0
    /\ tar_loaded = FALSE
    /\ gen = NoGen
    /\ iters = <<>>
    /\ archive_open = TRUE
    /\ fileobj_open = FALSE
    /\ closes = 0
    /\ scope = "none"
    /\ NoStream

Init ==
    /\ EmptyRegistry
    /\ ret = NoRet
    /\ ThreadsIdle
    /\ NoReader

\* one turn of the adapter's loop: build a member and register it
Register(rec) ==
    /\ ~all_members_registered
    /\ member_id_counter < MaxMembers
    /\ SetRegistry(RegisterMember(Registry, rec))
    /\ ret' = [op |-> "register_member", member |-> Len(members) + 1]
    /\ UNCHANGED all_members_registered
    /\ UNCHANGED <<concvars, readervars>>

\* ArchiveReader.set_all_members_registered, after the adapter's last record
SetAllMembersRegistered ==
    /\ ~all_members_registered
    /\ all_members_registered' = TRUE
    /\ ret' = [op |-> "set_all_members_registered"]
    /\ UNCHANGED <<member_id_counter, members, member_id_to_member, filename_to_members,
                   normalized_path_to_last_member>>
    /\ UNCHANGED <<concvars, readervars>>

\* a lookup that returns the first member of a name
GetMemberResultFirst(fnm, name) ==
    IF name \notin DOMAIN fnm
    THEN [op |-> "get_member", name |-> name, error |-> "ArchiveMemberNotFoundError",
          member |-> NoMember]
    ELSE [op |-> "get_member", name |-> name, error |-> "none", member |-> fnm[name][1]]

\* ArchiveReader.get_member(filename) on a complete registry (lines 486-488)
GetMemberResult(fnm, name) ==
    IF name \notin DOMAIN fnm
    THEN [op |-> "get_member", name |-> name, error |-> "ArchiveMemberNotFoundError",
          member |-> NoMember]
    ELSE [op |-> "get_member", name |-> name, error |-> "none",
          member |-> fnm[name][Len(fnm[name])]]

GetMember(name) ==
    /\ all_members_registered
    /\ ret' = GetMemberResult(filename_to_members, name)
    /\ UNCHANGED regvars
    /\ UNCHANGED <<concvars, readervars>>

Next ==
    \/ \E rec \in Records : Register(rec)
    \/ SetAllMembersRegistered
    \/ \E name \in LookupNames : GetMember(name)

Spec == Init /\ [][Next]_vars

----------------------------------------------------------------------------
(* Specification SpecConc: two threads call register_member on one reader. *)
(* A thread may be preempted between any two statements that touch the     *)
(* reader; the statements inside `with self._member_id_lock` exclude each  *)
(* other.                                                                  *)

ConcRecords ==
    {Rec(Fa, "FILE", NoTarget), Rec(<<".", "/", "a">>, "FILE", NoTarget),
     Rec(Fa, "HARDLINK", Fa), Rec(Fd, "SYMLINK", Fa)}

Goto(t, label) == pc' = [pc EXCEPT ![t] = label]

\* a lock that excludes nobody
LockIsFreeAlways(holder) == TRUE

\* line 194: threading.Lock can be taken when no thread holds it
LockIsFree(holder) == holder = NoThread

\* the caller builds a member and calls register_member
CallRegister(t, rec) ==
    /\ pc[t] = "idle"
    /\ Len(members) < MaxConcMembers
    /\ members' = Append(members, NewMember(rec))
    /\ cur' = [cur EXCEPT ![t] = Len(members) + 1]
    /\ Goto(t, "acquire")
    /\ UNCHANGED <<member_id_counter, member_id_to_member, filename_to_members,
                   normalized_path_to_last_member, all_members_registered, ret,
                   member_id_lock, alloc_order>>
    /\ UNCHANGED readervars

\* line 194
Acquire(t) ==
    /\ pc[t] = "acquire"
    /\ LockIsFree(member_id_lock)
    /\ member_id_lock' = t
    /\ Goto(t, "increment")
    /\ UNCHANGED <<regvars, ret, cur, alloc_order>>
    /\ UNCHANGED readervars

\* line 195
Increment(t) ==
    /\ pc[t] = "increment"
    /\ member_id_counter' = NextMemberId(member_id_counter)
    /\ Goto(t, "assign")
    /\ UNCHANGED <<members, member_id_to_member, filename_to_members,
                   normalized_path_to_last_member, all_members_registered, ret,
                   cur, member_id_lock, alloc_order>>
    /\ UNCHANGED readervars

\* line 196, and the end of the with block
AssignAndRelease(t) ==
    /\ pc[t] = "assign"
    /\ members' = AssignMemberId(members, cur[t], member_id_counter)
    /\ alloc_order' = Append(alloc_order, cur[t])
    /\ member_id_lock' = NoThread
    /\ Goto(t, "assert")
    /\ UNCHANGED <<member_id_counter, member_id_to_member, filename_to_members,
                   normalized_path_to_last_member, all_members_registered, ret, cur>>
    /\ UNCHANGED readervars

\* lines 197-201: set the archive id; the assertion ends the call when the id is taken
CheckNotRegistered(t) ==
    /\ pc[t] = "assert"
    /\ members' = AssignArchiveId(members, cur[t])
    /\ IF AlreadyRegistered(members, member_id_to_member, cur[t])
       THEN /\ Goto(t, "idle")
            /\ cur' = [cur EXCEPT ![t] = NoMember]
            /\ ret' = [op |-> "register_member", member |-> cur[t],
                       error |-> "AssertionError"]
       ELSE /\ Goto(t, "filename")
            /\ UNCHANGED <<cur, ret>>
    /\ UNCHANGED <<member_id_counter, member_id_to_member, filename_to_members,
                   normalized_path_to_last_member, all_members_registered,
                   member_id_lock, alloc_order>>
    /\ UNCHANGED readervars

\* lines 205-208
StepIndexFilename(t) ==
    /\ pc[t] = "filename"
    /\ filename_to_members' = IndexFilename(members, filename_to_members, cur[t])
    /\ Goto(t, "normalized_check")
    /\ UNCHANGED <<member_id_counter, members, member_id_to_member,
                   normalized_path_to_last_member, all_members_registered, ret,
                   cur, member_id_lock, alloc_order>>
    /\ UNCHANGED readervars

\* lines 210-215: the test, which another thread's write may follow
StepNormalizedCheck(t) ==
    /\ pc[t] = "normalized_check"
    /\ IF ReplacesIncumbent(members, normalized_path_to_last_member, cur[t])
       THEN Goto(t, "normalized_set")
       ELSE Goto(t, "by_id")
    /\ UNCHANGED <<regvars, ret, cur, member_id_lock, alloc_order>>
    /\ UNCHANGED readervars

\* line 216
StepNormalizedSet(t) ==
    /\ pc[t] = "normalized_set"
    /\ normalized_path_to_last_member' =
           SetNormalizedPath(members, normalized_path_to_last_member, cur[t])
    /\ Goto(t, "by_id")
    /\ UNCHANGED <<member_id_counter, members, member_id_to_member, filename_to_members,
                   all_members_registered, ret, cur, member_id_lock, alloc_order>>
    /\ UNCHANGED readervars

\* line 218
StepIndexMemberId(t) ==
    /\ pc[t] = "by_id"
    /\ member_id_to_member' = IndexMemberId(members, member_id_to_member, cur[t])
    /\ Goto(t, "resolve")
    /\ UNCHANGED <<member_id_counter, members, filename_to_members,
                   normalized_path_to_last_member, all_members_registered, ret,
                   cur, member_id_lock, alloc_order>>
    /\ UNCHANGED readervars

\* line 220
StepResolve(t) ==
    /\ pc[t] = "resolve"
    /\ members' = ResolveLinkTarget(members, filename_to_members,
                                    normalized_path_to_last_member, cur[t], {})
    /\ Goto(t, "idle")
    /\ cur' = [cur EXCEPT ![t] = NoMember]
    /\ ret' = [op |-> "register_member", member |-> cur[t]]
    /\ UNCHANGED <<member_id_counter, member_id_to_member, filename_to_members,
                   normalized_path_to_last_member, all_members_registered,
                   member_id_lock, alloc_order>>
    /\ UNCHANGED readervars

NextConc ==
    \E t \in Threads :
        \/ \E rec \in ConcRecords : CallRegister(t, rec)
        \/ Acquire(t)
        \/ Increment(t)
        \/ AssignAndRelease(t)
        \/ CheckNotRegistered(t)
        \/ StepIndexFilename(t)
        \/ StepNormalizedCheck(t)
        \/ StepNormalizedSet(t)
        \/ StepIndexMemberId(t)
        \/ StepResolve(t)

SpecConc == Init /\ [][NextConc]_vars

----------------------------------------------------------------------------
(* Properties of registration under threads (specification SpecConc).      *)

HasId(h) == members[h].member_id # 0

\* C1: every registered member carries the reader's archive_id and a
\* member_id no other member holds; the k-th member to pass the counter gets
\* member_id k, and the counter never goes back to an id it gave.
C1_MemberIdsUniqueInOrder ==
    /\ \A h \in Range(member_id_to_member) :
           /\ members[h].archive_id = ThisArchiveId
           /\ HasId(h)
    /\ \A h1, h2 \in DOMAIN members :
           HasId(h1) /\ HasId(h2) /\ h1 # h2
               => members[h1].member_id # members[h2].member_id
    /\ \A k \in DOMAIN alloc_order : members[alloc_order[k]].member_id = k
    /\ \A h \in DOMAIN members : members[h].member_id <= member_id_counter

\* two threads finished interleaved registrations: the one with the higher id
\* reached by_id first
C1_Witness ==
    /\ \A t \in Threads : pc[t] = "idle"
    /\ Len(member_id_to_member) = MaxConcMembers
    /\ \E i, j \in DOMAIN member_id_to_member :
           /\ i < j
           /\ members[member_id_to_member[i]].member_id
                  > members[member_id_to_member[j]].member_id

\* no register_member call is under way
Quiescent == \A t \in Threads : pc[t] = "idle"

\* the members that were given a member_id
Numbered == {h \in DOMAIN members : HasId(h)}

\* C26: when the concurrent register_member calls have returned, the
\* registry is that of a sequential run: by_id holds every member, each
\* by_filename list holds the members of that name in ascending member_id,
\* and by_normalized_path[p] is the member with the highest member_id among
\* those whose normalized filename is p.
C26_ConcurrentRegistrationsSerialize ==
    Quiescent =>
        /\ Range(member_id_to_member) = Numbered
        /\ \A h \in Numbered :
               /\ members[h].filename \in DOMAIN filename_to_members
               /\ h \in Range(filename_to_members[members[h].filename])
        /\ \A name \in DOMAIN filename_to_members :
               \A i, j \in DOMAIN filename_to_members[name] :
                   i < j => members[filename_to_members[name][i]].member_id
                                < members[filename_to_members[name][j]].member_id
        /\ \A h \in Numbered :
               /\ NormPath(members[h].filename) \in DOMAIN normalized_path_to_last_member
               /\ members[normalized_path_to_last_member[NormPath(members[h].filename)]]
                      .member_id >= members[h].member_id

\* member h is in by_filename under its name, and by_normalized_path has an
\* entry for its normalized path
Indexed(h) ==
    /\ members[h].filename \in DOMAIN filename_to_members
    /\ h \in Range(filename_to_members[members[h].filename])
    /\ NormPath(members[h].filename) \in DOMAIN normalized_path_to_last_member

\* C27: when a thread is about to run link resolution for its member, every
\* member with a lower member_id is in by_filename and by_normalized_path.
C27_EarlierMembersIndexedAtResolution ==
    \A t \in Threads :
        pc[t] = "resolve" =>
            \A h \in Numbered :
                members[h].member_id < members[cur[t]].member_id => Indexed(h)

----------------------------------------------------------------------------
(* Properties of the registry (specification Spec).                        *)

Registered == Range(member_id_to_member)

\* whether a list of members is in strictly ascending member_id order
StrictlyAscending(hs) ==
    \A i, j \in DOMAIN hs : i < j => members[hs[i]].member_id < members[hs[j]].member_id

\* the member of a set with the highest member_id, and no other has that id
IsLatestOf(h, S) ==
    /\ h \in S
    /\ \A y \in S \ {h} : members[y].member_id < members[h].member_id

Hardlinks == {h \in Registered : members[h].type = "HARDLINK"}
Symlinks == {s \in Registered : members[s].type = "SYMLINK"}
Resolved(id) == members[id].link_target_member # NoMember
TargetOf(id) == members[members[id].link_target_member]

\* C2: every hardlink whose link_target_member is set points to a member with
\* a strictly lower member_id whose type is not HARDLINK.
C2_HardlinkTargetLowerNotHardlink ==
    \A h \in Hardlinks :
        Resolved(h) =>
            /\ TargetOf(h).member_id < members[h].member_id
            /\ TargetOf(h).type # "HARDLINK"

\* a hardlink resolved through another hardlink (the chain f, g -> f, h -> g)
C2_Witness ==
    \E h \in Hardlinks, g \in Hardlinks :
        /\ Resolved(h) /\ Resolved(g)
        /\ g = MaxById(members, HardlinkCandidates(members, filename_to_members, h))
        /\ members[h].link_target_member = members[g].link_target_member

\* C3: every symlink whose link_target_member is set points to a terminal
\* member, one that is neither a SYMLINK nor a HARDLINK.
C3_SymlinkTargetTerminal ==
    \A s \in Symlinks : Resolved(s) => ~IsLink(TargetOf(s))

\* the member a symlink's normalized target names in the current registry
SymNext(id) ==
    IF members[id].type = "SYMLINK" /\ members[id].link_target # NoTarget
    THEN Get(normalized_path_to_last_member, NormalizedLinkTarget(members[id]), NoMember)
    ELSE NoMember

\* the members reached from id in n or fewer symlink steps, one at least
RECURSIVE SymReach(_, _)
SymReach(id, n) ==
    IF n = 0 \/ SymNext(id) = NoMember THEN {}
    ELSE {SymNext(id)} \cup SymReach(SymNext(id), n - 1)

OnSymlinkCycle(id) == id \in SymReach(id, Cardinality(Registered))

\* C4: every symlink on a cycle of normalized targets has link_target_member
\* unset once all the cycle's members are registered.
C4_CycleMembersUnresolved ==
    \A s \in Symlinks : OnSymlinkCycle(s) => ~Resolved(s)

MembersNamed(name) == {id \in Registered : members[id].filename = name}

C5_WitnessNotFound ==
    ret.op = "get_member" /\ ret.error = "ArchiveMemberNotFoundError"

NormalizedAs(p) == {id \in Registered : NormPath(members[id].filename) = p}

\* C6: by_normalized_path[p] is the member with the highest member_id among
\* the registered members whose normalized filename is p.
C6_NormalizedPathLatestWins ==
    /\ DOMAIN normalized_path_to_last_member =
           {NormPath(members[id].filename) : id \in Registered}
    /\ \A p \in DOMAIN normalized_path_to_last_member :
           IsLatestOf(normalized_path_to_last_member[p], NormalizedAs(p))

\* 'd/', 'd' and './d' registered, sharing one entry that holds the last
C6_Witness ==
    /\ {members[id].filename : id \in Registered} = {Fd, FdSlash, FdotD}
    /\ DOMAIN normalized_path_to_last_member = {Fd}
    /\ members[normalized_path_to_last_member[Fd]].member_id = 3

----------------------------------------------------------------------------
(* Specification SpecReader: a reader of one of the classes, opened on an  *)
(* archive, and a consumer that calls iter_members_with_io and             *)
(* get_members and advances or abandons the generator it was given.        *)

\* the number of records in the archive
MaxRecords == 2

\* the number of iter_members_with_io calls the consumer makes
MaxIters == 2

\* ZipReader, RarReader, TarReader(streaming_only=False),
\* TarReader(streaming_only=True), RarStreamReader
Kinds == {"ZIP", "RAR", "TAR", "TARSTREAM", "RARSTREAM"}

\* a reader whose random_access_available is taken as true in every mode
RandomAccessAssumed(k) == TRUE

\* random_access_available as each class hands it to ArchiveReader.__init__
RandomAccessSupported(k) == k # "TARSTREAM"

\* members_list_available as each class hands it to ArchiveReader.__init__
MembersListAvailable(k) == k # "TARSTREAM"

\* the iter_members_with_io each class runs
IterImpl(k) ==
    CASE k \in {"ZIP", "RAR"} -> "base"
      [] k \in {"TAR", "TARSTREAM"} -> "tar"
      [] k = "RARSTREAM" -> "rarstream"

\* the member types ZipReader.get_members can build
ZipTypes == {"DIR", "SYMLINK", "FILE"}

ReaderRecords ==
    {Rec(Fa, "FILE", NoTarget), Rec(FdSlash, "DIR", NoTarget), Rec(Fd, "SYMLINK", Fa),
     Rec(Fd, "HARDLINK", Fa), Rec(Fa, "OTHER", NoTarget)}

RecordsOf(k) ==
    IF k = "ZIP" THEN {r \in ReaderRecords : r.type \in ZipTypes} ELSE ReaderRecords

ArchivesOf(k) == UNION {[1..n -> RecordsOf(k)] : n \in 0..MaxRecords}

\* tarfile.open reads the first record; a tar without records is loaded at once
TarOpened ==
    /\ tar_members_read = (IF kind \in {"TAR", "TARSTREAM"} /\ Len(archive) > 0 THEN 1 ELSE 0)
    /\ tar_loaded = (kind \in {"TAR", "TARSTREAM"} /\ Len(archive) = 0)

\* the reader's constructor has returned: the decoder is open, and TarReader
\* holds the file object it opened for it
Opened ==
    /\ archive_open = TRUE
    /\ fileobj_open = (kind \in {"TAR", "TARSTREAM"})
    /\ closes = 0
    /\ scope = "none"

InitReader ==
    /\ EmptyRegistry
    /\ ret = NoRet
    /\ ThreadsIdle
    /\ kind \in Kinds
    /\ archive \in ArchivesOf(kind)
    /\ IntactTar
    /\ members_cache = [set |-> FALSE, list |-> <<>>]
    /\ TarOpened
    /\ gen = NoGen
    /\ iters = <<>>
    /\ Opened
    /\ NoStream

\* everything a reader operation can change, as one record, and back
World ==
    [reg |-> Registry, allreg |-> all_members_registered, cache |-> members_cache,
     tread |-> tar_members_read, tloaded |-> tar_loaded]

SetWorld(w) ==
    /\ SetRegistry(w.reg)
    /\ all_members_registered' = w.allreg
    /\ members_cache' = w.cache
    /\ tar_members_read' = w.tread
    /\ tar_loaded' = w.tloaded

\* the selector argument `members`: None, a collection of member references
\* (by their member_id) and filenames, or a predicate (here: on the type)
SelNone == [shape |-> "none", ids |-> {}, names |-> {}, types |-> {}]
SelCollection(ids, names) ==
    [shape |-> "collection", ids |-> ids, names |-> names, types |-> {}]
SelPredicate(types) == [shape |-> "predicate", ids |-> {}, names |-> {}, types |-> types]


\* the filter argument: None, or a function that returns None for the
\* members of some types and for the others the member itself or, when it
\* forges, the first member of the registry whatever member it was given
FltNone == [given |-> FALSE, drops |-> {}, forge |-> FALSE]
FltDrop(types) == [given |-> TRUE, drops |-> types, forge |-> FALSE]
FltForge(types) == [given |-> TRUE, drops |-> types, forge |-> TRUE]

\* the arguments of the iter_members_with_io calls the consumer makes
Calls ==
    {[sel |-> SelNone, flt |-> FltNone],
     [sel |-> SelNone, flt |-> FltDrop({"FILE", "SYMLINK"})],
     [sel |-> SelCollection({2}, {Fa}), flt |-> FltDrop({"SYMLINK"})],
     [sel |-> SelPredicate({"FILE", "HARDLINK"}), flt |-> FltNone],
     [sel |-> SelPredicate({"FILE", "DIR", "SYMLINK"}), flt |-> FltForge({"SYMLINK"})]}

\* the function _build_member_included_func returns, applied to a member
MemberIncluded(sel, m) ==
    CASE sel.shape = "none" -> TRUE
      [] sel.shape = "predicate" -> m.type \in sel.types
      [] sel.shape = "collection" -> m.filename \in sel.names \/ m.member_id \in sel.ids

\* filter(member)
FilterCall(flt, mem, h) ==
    IF mem[h].type \in flt.drops THEN NoMember
    ELSE IF flt.forge THEN 1
    ELSE h

\* _build_iterator_filter._apply_filter
ApplyFilter(sel, flt, mem, h) ==
    IF ~MemberIncluded(sel, mem[h]) THEN [error |-> "none", member |-> NoMember]
    ELSE IF ~flt.given THEN [error |-> "none", member |-> h]
    ELSE LET filtered == FilterCall(flt, mem, h)
         IN  IF filtered # NoMember /\ mem[filtered].member_id # mem[h].member_id
             THEN [error |-> "ValueError: different internal ID", member |-> NoMember]
             ELSE [error |-> "none", member |-> filtered]

\* the stream slot of the default implementation
BaseStreamFor(m) == IF IsFile(m) THEN "LazyOpenIO" ELSE "None"

\* a TAR iteration that hands a stream out for every member
TarStreamForMemberAlways(m) == "LazyOpenIO"

\* TarReader.iter_members_with_io._get_stream_for_member
TarStreamForMember(m) == IF ~IsFile(m) THEN "None" ELSE "LazyOpenIO"

\* RarStreamReader._get_member_file: for a file an ErrorIOStream or a
\* RarStreamMemberFile, both streams
RarGetMemberFile(m) == IF ~IsFile(m) THEN "None" ELSE "RarStream"

\* the frame of a generator that has not run yet
NewFrame(k, sel, flt) ==
    [state |-> "created", impl |-> IterImpl(k), sel |-> sel, flt |-> flt,
     phase |-> "start", list |-> <<>>, idx |-> 0, size0 |-> 0, stream |-> NoMember]

\* Body(value), with value computed once
With(value, Body(_)) == CHOOSE result \in {Body(v) : v \in {value}} : TRUE

\* the three ways a run of the generator body ends
Yield(w, f, h, stream) ==
    [w |-> w,
     f |-> [f EXCEPT !.state = "suspended",
                     !.stream = IF stream = "None" THEN NoMember ELSE h],
     out |-> <<[member |-> h, stream |-> stream]>>, error |-> "none"]

Finish(w, f) == [w |-> w, f |-> [state |-> "finished"], out |-> <<>>, error |-> "none"]

Raise(w, f, e) == [w |-> w, f |-> [state |-> "raised"], out |-> <<>>, error |-> e]

\* the loop of ZipReader.get_members / BaseRarReader.get_members from record i on
RECURSIVE RegisterRecords(_, _, _)
RegisterRecords(reg, list, i) ==
    IF i > Len(archive) THEN [reg |-> reg, list |-> list]
    ELSE With(RegisterMember(reg, archive[i]),
              LAMBDA reg1 : RegisterRecords(reg1, Append(list, Len(reg1.members)), i + 1))

\* what ZipReader.get_members (ValueError) and BaseRarReader.get_members
\* (ArchiveError) raise on a closed archive
ArchiveIsClosed(k) ==
    IF k = "ZIP" THEN "ValueError: Archive is closed" ELSE "ArchiveError: Archive is closed"

\* ZipReader.get_members / BaseRarReader.get_members
AdapterGetMembers(w) ==
    IF ~archive_open THEN [w |-> w, list |-> <<>>, error |-> ArchiveIsClosed(kind)]
    ELSE IF w.cache.set THEN [w |-> w, list |-> w.cache.list, error |-> "none"]
    ELSE With(RegisterRecords(w.reg, <<>>, 1),
              LAMBDA r : [w |-> [w EXCEPT !.reg = r.reg, !.allreg = TRUE,
                                          !.cache = [set |-> TRUE, list |-> r.list]],
                          list |-> r.list, error |-> "none"])

\* one turn of `for tarinfo in self._archive` for an iterator that has given
\* out `index` records: TarFile.__iter__ starts each iteration at the first
\* record, takes the records tarfile has read from TarFile.members and
\* reads on from the file after them
TarFileIterNext(w, index) ==
    IF index < w.tread THEN [w |-> w, more |-> TRUE, rec |-> archive[index + 1]]
    ELSE IF ~w.tloaded /\ w.tread < Len(archive)
    THEN [w |-> [w EXCEPT !.tread = w.tread + 1], more |-> TRUE, rec |-> archive[w.tread + 1]]
    ELSE [w |-> [w EXCEPT !.tloaded = TRUE], more |-> FALSE, rec |-> <<>>]

RECURSIVE Resume(_, _)

\* `for _ in gen: pass`
RECURSIVE Drain(_, _)
Drain(w, f) ==
    With(Resume(w, f), LAMBDA r : IF r.f.state = "suspended" THEN Drain(r.w, r.f) ELSE r)

\* ArchiveReader.get_members, which TarReader inherits
BaseGetMembers(w) ==
    IF ~MembersListAvailable(kind) THEN [w |-> w, list |-> <<>>, error |-> "ValueError"]
    ELSE IF ~RandomAccessSupported(kind)
    THEN [w |-> w, list |-> <<>>, error |-> "AssertionError"]
    ELSE IF ~w.allreg
    THEN With(Drain(w, NewFrame(kind, SelNone, FltNone)),
              LAMBDA d :
                  IF d.error # "none" THEN [w |-> d.w, list |-> <<>>, error |-> d.error]
                  ELSE IF ~d.w.allreg
                  THEN [w |-> d.w, list |-> <<>>, error |-> "AssertionError"]
                  ELSE [w |-> d.w, list |-> d.w.reg.idm, error |-> "none"])
    ELSE [w |-> w, list |-> w.reg.idm, error |-> "none"]

\* self.get_members() as the reader's class resolves it
GetMembersOf(k, w) ==
    IF k \in {"ZIP", "RAR", "RARSTREAM"} THEN AdapterGetMembers(w) ELSE BaseGetMembers(w)

\* ArchiveReader.iter_members_with_io from the frame's position to the next
\* yield or to the end
RECURSIVE BaseRun(_, _)
BaseRun(w, f) ==
    IF f.phase = "start"
    THEN IF ~RandomAccessSupported(kind) THEN Raise(w, f, "AssertionError")
         ELSE With(GetMembersOf(kind, w),
                   LAMBDA gm :
                       IF gm.error # "none" THEN Raise(gm.w, f, gm.error)
                       ELSE BaseRun(gm.w, [f EXCEPT !.phase = "list", !.list = gm.list,
                                                    !.idx = 0]))
    ELSE IF f.idx >= Len(f.list) THEN Finish(w, f)
    ELSE LET member == f.list[f.idx + 1]
             f1 == [f EXCEPT !.idx = f.idx + 1]
         IN  With(ApplyFilter(f.sel, f.flt, w.reg.members, member),
                  LAMBDA filtered :
                      IF filtered.error # "none" THEN Raise(w, f1, filtered.error)
                      ELSE IF filtered.member = NoMember THEN BaseRun(w, f1)
                      ELSE Yield(w, f1, member, BaseStreamFor(w.reg.members[member])))

\* TarReader._check_tar_integrity: the error it raises, if any. close() has
\* set _fileobj to None
CheckTarIntegrity ==
    IF fileobj_open /\ fileobj_seekable
    THEN IF Len(trailer) < TrailerBlocks
         THEN "ArchiveCorruptedError: Missing data after last tarinfo"
         ELSE IF trailer # [b \in 1..TrailerBlocks |-> "zero"]
         THEN "ArchiveCorruptedError: Invalid data after last tarinfo"
         ELSE "none"
    ELSE "none"

\* an iteration that checks the blocks after the last record whatever the
\* configuration says and whether or not the loop gave a record out
TarArchiveReadChecksAlways(w, f) ==
    With(CheckTarIntegrity,
         LAMBDA error : IF error # "none" THEN Raise(w, f, error) ELSE Finish(w, f))

\* lines 361-364: after the loop over the archive, the registry is complete
\* (the caller has set it) and the blocks after the last record the loop gave
\* out are checked; f.idx counts the turns of the loop, tarinfo is None after
\* none
TarArchiveRead(w, f) ==
    IF tar_check_integrity /\ f.idx > 0
    THEN With(CheckTarIntegrity,
              LAMBDA error : IF error # "none" THEN Raise(w, f, error) ELSE Finish(w, f))
    ELSE Finish(w, f)

RECURSIVE TarRun(_, _)

\* lines 321-328: the turn of the loop over the archive after register_member
TarRegistered(w, f) ==
    LET member == Len(w.reg.members)
        f1 == [f EXCEPT !.idx = f.idx + 1]
    IN  With(ApplyFilter(f.sel, f.flt, w.reg.members, member),
             LAMBDA filtered :
                 IF filtered.error # "none" THEN Raise(w, f1, filtered.error)
                 ELSE IF filtered.member = NoMember THEN TarRun(w, f1)
                 ELSE Yield(w, f1, filtered.member,
                            TarStreamForMember(w.reg.members[member])))

\* TarReader.iter_members_with_io from the frame's position to the next
\* yield or to the end
TarRun(w, f) ==
    CASE f.phase = "start" ->
            IF ~archive_open THEN Raise(w, f, "ValueError: Archive is closed")
            ELSE IF Len(w.reg.idm) > 0
            THEN IF ~RandomAccessSupported(kind)
                 THEN Raise(w, f, "ValueError: can only iterate once")
                 ELSE TarRun(w, [f EXCEPT !.phase = "replay", !.idx = 0,
                                          !.size0 = Len(w.reg.idm)])
            ELSE TarRun(w, [f EXCEPT !.phase = "archive", !.idx = 0])
      [] f.phase = "replay" ->
            \* a dict iterator fails when the dict has grown since it started
            IF Len(w.reg.idm) # f.size0 THEN Raise(w, f, "RuntimeError")
            ELSE IF f.idx >= Len(w.reg.idm)
            THEN TarRun(w, [f EXCEPT !.phase = "archive", !.idx = 0])
            ELSE LET member == w.reg.idm[f.idx + 1]
                     f1 == [f EXCEPT !.idx = f.idx + 1]
                 IN  With(ApplyFilter(f.sel, f.flt, w.reg.members, member),
                          LAMBDA filtered :
                              IF filtered.error # "none" THEN Raise(w, f1, filtered.error)
                              ELSE IF filtered.member = NoMember THEN TarRun(w, f1)
                              ELSE Yield(w, f1, filtered.member,
                                         TarStreamForMember(w.reg.members[member])))
      [] f.phase = "archive" ->
            With(TarFileIterNext(w, f.idx),
                 LAMBDA t :
                     IF ~t.more THEN TarArchiveRead([t.w EXCEPT !.allreg = TRUE], f)
                     ELSE With(RegisterMember(t.w.reg, t.rec),
                               LAMBDA reg1 : TarRegistered([t.w EXCEPT !.reg = reg1], f)))

\* RarStreamReader.iter_members_with_io from the frame's position to the next
\* yield or to the end; it reads neither the selector nor the filter
RECURSIVE RarStreamRun(_, _)
RarStreamRun(w, f) ==
    IF f.phase = "start"
    THEN IF ~archive_open THEN Raise(w, f, "ValueError: Archive is closed")
         ELSE With(AdapterGetMembers(w),
                   LAMBDA gm : RarStreamRun(gm.w, [f EXCEPT !.phase = "list",
                                                            !.list = gm.list, !.idx = 0]))
    ELSE IF f.idx >= Len(f.list) THEN Finish(w, f)
    ELSE LET member == f.list[f.idx + 1]
         IN  Yield(w, [f EXCEPT !.idx = f.idx + 1], member,
                   RarGetMemberFile(w.reg.members[member]))

\* next(gen): the stream of the pair yielded before is closed, then the body
\* runs on
Resume(w, f) ==
    LET f0 == [f EXCEPT !.state = "running", !.stream = NoMember]
    IN  CASE f.impl = "base" -> BaseRun(w, f0)
          [] f.impl = "tar" -> TarRun(w, f0)
          [] f.impl = "rarstream" -> RarStreamRun(w, f0)

\* the iteration the live generator belongs to
ThisIter == Len(iters)

\* the streams of a generator that are not closed: the stream of the pair it
\* is suspended at
OpenStreamOf(f) ==
    IF f.state = "suspended" /\ f.stream # NoMember THEN {f.stream} ELSE {}

GenLive == gen.state \in {"created", "suspended"}

\* reader.iter_members_with_io(members, filter=filter): a generator is made,
\* none of its body runs
IterMembersWithIo(sel, flt) ==
    /\ ~GenLive
    /\ Len(iters) < MaxIters
    /\ gen' = NewFrame(kind, sel, flt)
    /\ iters' = Append(iters, [sel |-> sel, flt |-> flt, out |-> <<>>,
                               status |-> "created", upto |-> 0, error |-> "none",
                               open |-> {}])
    /\ ret' = [op |-> "iter_members_with_io", error |-> "none"]
    /\ UNCHANGED <<regvars, concvars, kind, archive, tarvars, members_cache, tar_members_read,
                   tar_loaded, lifevars, streamvars>>

\* next(gen)
Advance ==
    /\ GenLive
    /\ \E r \in {Resume(World, gen)} :
           /\ SetWorld(r.w)
           /\ gen' = r.f
           /\ iters' = [iters EXCEPT ![ThisIter].out = @ \o r.out,
                                     ![ThisIter].status = r.f.state,
                                     ![ThisIter].upto = Len(r.w.reg.members),
                                     ![ThisIter].error = r.error,
                                     ![ThisIter].open = OpenStreamOf(r.f)]
           /\ ret' = [op |-> "next", error |-> r.error]
    /\ UNCHANGED <<concvars, kind, archive, tarvars, lifevars, streamvars>>

\* GeneratorExit raised at the yield: the default iteration closes the stream
\* of the pair in its finally block; the TAR and the RAR streaming iteration
\* close it in the statement after the yield, which does not run
GeneratorExit(impl, open) == IF impl = "base" THEN {} ELSE open

\* gen.close(), or the consumer dropping the generator: GeneratorExit is
\* raised at the yield the generator is suspended at, nothing else runs
Abandon ==
    /\ GenLive
    /\ gen' = [state |-> "closed"]
    /\ iters' = [iters EXCEPT ![ThisIter].status = "closed",
                              ![ThisIter].open = GeneratorExit(gen.impl, @)]
    /\ ret' = [op |-> "close_generator", error |-> "none"]
    /\ UNCHANGED <<regvars, concvars, kind, archive, tarvars, members_cache, tar_members_read,
                   tar_loaded, lifevars, streamvars>>

\* reader.get_members()
GetMembers ==
    /\ \E gm \in {GetMembersOf(kind, World)} :
           /\ SetWorld(gm.w)
           /\ ret' = [op |-> "get_members", error |-> gm.error]
    /\ UNCHANGED <<concvars, kind, archive, tarvars, gen, iters, lifevars, streamvars>>

NextReader ==
    \/ \E call \in Calls : IterMembersWithIo(call.sel, call.flt)
    \/ Advance
    \/ Abandon
    \/ GetMembers

SpecReader == InitReader /\ [][NextReader]_vars

----------------------------------------------------------------------------
(* Claims about the reader classes (specification SpecReader).             *)

\* the members an iteration has yielded, in the order it yielded them
YieldedMembers(it) == [k \in DOMAIN it.out |-> it.out[k].member]

\* an iteration that ran to its end, and one called with no selector and no filter
Complete(it) == it.status = "finished"
Unfiltered(it) == it.sel = SelNone /\ it.flt = FltNone

\* C7: once set_all_members_registered has been called, no step of the reader
\* (a second iteration, get_members) changes the registered members.
C7_MemberSetFrozen ==
    [][all_members_registered => member_id_to_member' = member_id_to_member]_vars

\* C8: on a random-access reader, two complete iterations without selector and
\* filter yield the same members in the same order, in strictly ascending
\* member_id.
C8_TwoIterationsSameSequence ==
    kind \in {"ZIP", "RAR", "TAR"} =>
        \A i, j \in DOMAIN iters :
            (Complete(iters[i]) /\ Unfiltered(iters[i])
                /\ Complete(iters[j]) /\ Unfiltered(iters[j])) =>
                /\ YieldedMembers(iters[i]) = YieldedMembers(iters[j])
                /\ StrictlyAscending(YieldedMembers(iters[i]))

\* C9: every yielded pair has a stream exactly when its member is a FILE.
C9_StreamIffFile ==
    \A i \in DOMAIN iters : \A k \in DOMAIN iters[i].out :
        (iters[i].out[k].stream # "None") <=> IsFile(members[iters[i].out[k].member])

\* a TAR iteration has yielded a FILE with a stream and a member of another
\* type with an empty stream slot
C9_Witness ==
    /\ kind \in {"TAR", "TARSTREAM"}
    /\ \E i \in DOMAIN iters : \E k, l \in DOMAIN iters[i].out :
        /\ IsFile(members[iters[i].out[k].member])
        /\ iters[i].out[k].stream # "None"
        /\ ~IsFile(members[iters[i].out[l].member])
        /\ iters[i].out[l].stream = "None"

\* the selector admits the member: no selector, a collection holding the
\* member's member_id or its exact filename, or a predicate that is true of it
Admits(sel, m) ==
    \/ sel.shape = "none"
    \/ sel.shape = "collection" /\ (m.member_id \in sel.ids \/ m.filename \in sel.names)
    \/ sel.shape = "predicate" /\ m.type \in sel.types

\* the filter, when given, does not return none for the member
FilterKeeps(flt, h) == flt.given => FilterCall(flt, members, h) # NoMember

\* the members that were registered when the iteration last ran
RegisteredUpTo(it) == {h \in Registered : h <= it.upto}

\* C10: an iteration yields only members the selector admits and the filter
\* keeps, and a complete iteration yields every such member.
C10_YieldsIffAdmittedAndKept ==
    \A i \in DOMAIN iters :
        LET it == iters[i]
            wanted == {h \in RegisteredUpTo(it) :
                           Admits(it.sel, members[h]) /\ FilterKeeps(it.flt, h)}
        IN  /\ Range(YieldedMembers(it)) \subseteq wanted
            /\ Complete(it) => Range(YieldedMembers(it)) = wanted

\* the filter, asked about an admitted member, answers with a member of
\* another member_id
Forges(it, h) ==
    /\ Admits(it.sel, members[h])
    /\ it.flt.given
    /\ FilterCall(it.flt, members, h) # NoMember
    /\ members[FilterCall(it.flt, members, h)].member_id # members[h].member_id

\* C11: an iteration never yields a member for which its filter forges an
\* identity, it does not run to its end when the filter forges for a member
\* of the archive, and it fails with the forged-identity error only then.
C11_ForgedFilterFails ==
    \A i \in DOMAIN iters :
        LET it == iters[i]
        IN  /\ \A k \in DOMAIN it.out : ~Forges(it, it.out[k].member)
            /\ Complete(it) => \A h \in RegisteredUpTo(it) : ~Forges(it, h)
            /\ it.error = "ValueError: different internal ID" =>
                   \E h \in RegisteredUpTo(it) : Forges(it, h)

\* the member streams of the reader that were handed out and are not closed
OpenMemberStreams ==
    UNION {{<<i, h>> : h \in iters[i].open} : i \in DOMAIN iters}

\* C21: in every iteration implementation the stream of a pair is closed
\* when the next pair is yielded (the only stream an iteration leaves open is
\* that of its last pair), and at most one member stream of the reader is
\* open at any time.
C21_OneOpenMemberStream ==
    /\ \A i \in DOMAIN iters :
           iters[i].open \subseteq
               {iters[i].out[k].member : k \in {Len(iters[i].out)} \cap DOMAIN iters[i].out}
    /\ Cardinality(OpenMemberStreams) <= 1

----------------------------------------------------------------------------
(* Specification SpecOpen: an adapter of a random-access reader registers  *)
(* the archive's records and marks the registry complete; the consumer     *)
(* then opens members it was given, or a member of another reader.         *)

Fs == <<"s">>
Fh == <<"h">>

OpenRecords ==
    {Rec(Fa, "FILE", NoTarget), Rec(FdSlash, "DIR", NoTarget),
     Rec(Fs, "SYMLINK", Fa), Rec(Fs, "SYMLINK", Fh), Rec(Fs, "SYMLINK", Fd),
     Rec(Fa, "SYMLINK", Fs),
     Rec(Fh, "HARDLINK", Fs), Rec(Fh, "HARDLINK", Fa)}

\* an ArchiveMember that another reader registered
ForeignMember ==
    [NewMember(Rec(Fa, "FILE", NoTarget)) EXCEPT !.member_id = 1,
                                                 !.archive_id = OtherArchiveId]

\* ArchiveReader.get_member given an ArchiveMember (lines 476-481)
GetMemberByObject(member) ==
    IF member.archive_id # ThisArchiveId THEN "ValueError" ELSE "none"

\* lines 438-460 of _resolve_member_to_open, after the resolver has run:
\* the member that is opened in place of h
FinalMember(mem, h) ==
    IF IsLink(mem[h]) /\ mem[h].link_target_member = NoMember
    THEN [members |-> mem, error |-> "ArchiveMemberCannotBeOpenedError", final |-> NoMember]
    ELSE LET final_member == IF IsLink(mem[h]) THEN mem[h].link_target_member ELSE h
         IN  IF ~IsFile(mem[final_member])
             THEN [members |-> mem, error |-> "ArchiveMemberCannotBeOpenedError",
                   final |-> NoMember]
             ELSE [members |-> mem, error |-> "none", final |-> final_member]

\* ArchiveReader._resolve_member_to_open for a member of this reader's heap
ResolveMemberToOpen(reg, h) ==
    IF GetMemberByObject(reg.members[h]) # "none"
    THEN [members |-> reg.members, error |-> GetMemberByObject(reg.members[h]),
          final |-> NoMember]
    ELSE IF IsLink(reg.members[h])
    THEN With(ResolveLinkTarget(reg.members, reg.fnm, reg.npm, h, {}),
              LAMBDA mem : FinalMember(mem, h))
    ELSE FinalMember(reg.members, h)

\* reader.open(member) on an open random-access reader: the decoder opens the
\* member _resolve_member_to_open returns
Open(h) ==
    /\ all_members_registered
    /\ \E r \in {ResolveMemberToOpen(Registry, h)} :
           /\ members' = r.members
           /\ ret' = [op |-> "open", member |-> h, foreign |-> FALSE, error |-> r.error,
                      opened |-> r.final]
    /\ UNCHANGED <<member_id_counter, member_id_to_member, filename_to_members,
                   normalized_path_to_last_member, all_members_registered>>
    /\ UNCHANGED <<concvars, readervars>>

\* reader.open(member) with a member of another reader
OpenForeign ==
    /\ all_members_registered
    /\ ret' = [op |-> "open", member |-> NoMember, foreign |-> TRUE,
               error |-> GetMemberByObject(ForeignMember), opened |-> NoMember]
    /\ UNCHANGED regvars
    /\ UNCHANGED <<concvars, readervars>>

NextOpen ==
    \/ \E rec \in OpenRecords : Register(rec)
    \/ SetAllMembersRegistered
    \/ \E h \in DOMAIN members : Open(h)
    \/ OpenForeign

SpecOpen == Init /\ [][NextOpen]_vars

----------------------------------------------------------------------------
(* Claims about open (specification SpecOpen).                             *)

\* the member a link points to in the registry: for a hardlink the member
\* named link_target with the highest member_id below the link's, for a
\* symlink the latest member at the normalized target path
ChainNext(h) ==
    LET m == members[h]
        cands == IF m.type = "HARDLINK"
                 THEN {x \in MembersNamed(m.link_target) :
                           members[x].member_id < m.member_id}
                 ELSE NormalizedAs(NormalizedLinkTarget(m))
    IN  IF cands = {} THEN NoMember ELSE MaxById(members, cands)

\* the member where the chain of links from h ends after at most n links;
\* NoMember when a link dangles or the chain does not end
RECURSIVE ChainEnd(_, _)
ChainEnd(h, n) ==
    IF ~IsLink(members[h]) THEN h
    ELSE IF n = 0 \/ ChainNext(h) = NoMember THEN NoMember
    ELSE ChainEnd(ChainNext(h), n - 1)

Terminal(h) == ChainEnd(h, Len(members))

\* the last call was open(m) for a link member m of this reader
OpenedLink == ret.op = "open" /\ ~ret.foreign /\ IsLink(members[ret.member])

\* C12: open(m) for a link m opens the FILE its chain of links ends at, and
\* fails with member-cannot-be-opened exactly when the chain ends at a
\* member that is not a file or does not end at a member.
C12_OpenLinkOpensTerminalFile ==
    OpenedLink =>
        IF Terminal(ret.member) # NoMember /\ IsFile(members[Terminal(ret.member)])
        THEN ret.error = "none" /\ ret.opened = Terminal(ret.member)
        ELSE ret.error = "ArchiveMemberCannotBeOpenedError"

\* C13: open with a member of another reader fails with
\* member-cannot-be-opened.
C13_ForeignMemberCannotBeOpened ==
    (ret.op = "open" /\ ret.foreign) => ret.error = "ArchiveMemberCannotBeOpenedError"

\* C14: when the resolution that open runs for a link fails (the target is
\* absent, the links form a cycle, or a link further on does not resolve),
\* the link's link_target_member is unset afterwards and the open fails with
\* member-cannot-be-opened.
C14_FailedResolutionUnsetsTarget ==
    (OpenedLink /\ Terminal(ret.member) = NoMember) =>
        /\ members[ret.member].link_target_member = NoMember
        /\ ret.error = "ArchiveMemberCannotBeOpenedError"

----------------------------------------------------------------------------
(* Specification SpecClose: the life of one reader object. The consumer    *)
(* calls the reader's operations in any order, closes the reader directly, *)
(* through a StreamingOnlyArchiveReaderWrapper, or by leaving a            *)
(* `with reader:` block, and goes on calling operations afterwards.        *)

\* close() calls followed in one behaviour
MaxCloses == 2

\* iter_members_with_io calls followed in one behaviour of the reader's life
MaxLifeIters == 1

TarKinds == {"TAR", "TARSTREAM"}

NoCache == [set |-> FALSE, list |-> <<>>]

\* what close() can change
LifeState == [open |-> archive_open, cache |-> members_cache, fileobj |-> fileobj_open]

\* ZipReader.close / BaseRarReader.close: `if self._archive:` close it, forget
\* it and the cached list
CloseArchive(s) == IF s.open THEN [s EXCEPT !.open = FALSE, !.cache = NoCache] ELSE s

\* close() of each class; TarReader also closes its file object,
\* RarStreamReader.close is `pass`
CloseOf(k, s) ==
    CASE k \in {"ZIP", "RAR"} -> CloseArchive(s)
      [] k \in TarKinds -> [CloseArchive(s) EXCEPT !.fileobj = FALSE]
      [] k = "RARSTREAM" -> s

SetLifeState(s) ==
    /\ archive_open' = s.open
    /\ members_cache' = s.cache
    /\ fileobj_open' = s.fileobj

\* reader.close(), or StreamingOnlyArchiveReaderWrapper.close() on a wrapper
\* around the reader, while no generator is suspended at a yield
Close(via) ==
    /\ gen.state # "suspended"
    /\ closes < MaxCloses - (IF scope = "inside" THEN 1 ELSE 0)
    /\ SetLifeState(CloseOf(kind, LifeState))
    /\ closes' = closes + 1
    /\ ret' = [op |-> "close", via |-> via, error |-> "none"]
    /\ UNCHANGED <<regvars, concvars, kind, archive, tarvars, tar_members_read, tar_loaded, gen,
                   iters, scope, streamvars>>

\* ArchiveReader.__enter__
EnterScope ==
    /\ scope = "none"
    /\ closes = 0
    /\ scope' = "inside"
    /\ ret' = [op |-> "__enter__", error |-> "none"]
    /\ UNCHANGED <<regvars, concvars, kind, archive, tarvars, members_cache, tar_members_read,
                   tar_loaded, gen, iters, archive_open, fileobj_open, closes, streamvars>>

\* ArchiveReader.__exit__ closes whatever exc_type is
ExitSkipsCloseOnException(exc) == ~exc

ExitCallsClose(exc) == TRUE

\* the with-block is left, by its last statement (exc = FALSE) or by an
\* exception raised in it (exc = TRUE): __exit__ runs and returns None
ExitScope(exc) ==
    /\ scope = "inside"
    /\ gen.state # "suspended"
    /\ IF ExitCallsClose(exc)
       THEN SetLifeState(CloseOf(kind, LifeState)) /\ closes' = closes + 1
       ELSE UNCHANGED <<archive_open, members_cache, fileobj_open, closes>>
    /\ scope' = "exited"
    /\ ret' = [op |-> "__exit__", exc |-> exc, error |-> "none"]
    /\ UNCHANGED <<regvars, concvars, kind, archive, tarvars, tar_members_read, tar_loaded, gen,
                   iters, streamvars>>

\* `return None` and `return <list>` of get_members_if_available
NotAvailable(w) == [w |-> w, list |-> <<>>, error |-> "none", available |-> FALSE]

Available(gm) ==
    [w |-> gm.w, list |-> gm.list, error |-> gm.error, available |-> gm.error = "none"]

\* ArchiveReader.get_members_if_available, and TarReader's override
GetMembersIfAvailableOf(k, w) ==
    IF k \in TarKinds
    THEN IF k = "TARSTREAM" THEN NotAvailable(w)
         ELSE Available(GetMembersOf(k, w))
    ELSE IF w.allreg THEN Available([w |-> w, list |-> w.reg.idm, error |-> "none"])
    ELSE IF ~MembersListAvailable(k) THEN NotAvailable(w)
    ELSE Available(GetMembersOf(k, w))

\* reader.get_members_if_available()
GetMembersIfAvailable ==
    /\ \E gm \in {GetMembersIfAvailableOf(kind, World)} :
           /\ SetWorld(gm.w)
           /\ ret' = [op |-> "get_members_if_available", error |-> gm.error,
                      available |-> gm.available, list |-> gm.list]
    /\ UNCHANGED <<concvars, kind, archive, tarvars, gen, iters, lifevars, streamvars>>

\* ArchiveReader.get_member(filename) (lines 483-488)
GetMemberOf(k, w, name) ==
    With(IF ~w.allreg THEN GetMembersOf(k, w) ELSE [w |-> w, list |-> <<>>, error |-> "none"],
         LAMBDA gm :
             IF gm.error # "none" THEN [w |-> gm.w, error |-> gm.error, member |-> NoMember]
             ELSE [w |-> gm.w, error |-> GetMemberResult(gm.w.reg.fnm, name).error,
                   member |-> GetMemberResult(gm.w.reg.fnm, name).member])

\* reader.get_member(filename)
ReaderGetMember(name) ==
    /\ \E gm \in {GetMemberOf(kind, World, name)} :
           /\ SetWorld(gm.w)
           /\ ret' = [op |-> "get_member", error |-> gm.error]
    /\ UNCHANGED <<concvars, kind, archive, tarvars, gen, iters, lifevars, streamvars>>

\* _resolve_member_to_open inside a reader's open
ResolveInWorld(w, h) ==
    With(ResolveMemberToOpen(w.reg, h),
         LAMBDA r : [w |-> [w EXCEPT !.reg.members = r.members], error |-> r.error])

\* open(member) of each class: ZipReader and TarReader look at _archive first,
\* RarReader resolves the member first, RarStreamReader always refuses
OpenOf(k, w, h) ==
    CASE k = "ZIP" ->
            IF ~archive_open THEN [w |-> w, error |-> "ValueError: Archive is closed"]
            ELSE ResolveInWorld(w, h)
      [] k \in TarKinds ->
            IF ~archive_open THEN [w |-> w, error |-> "ValueError: Archive is closed"]
            ELSE IF k = "TARSTREAM" THEN [w |-> w, error |-> "ValueError: streaming mode"]
            ELSE ResolveInWorld(w, h)
      [] k = "RAR" ->
            With(ResolveInWorld(w, h),
                 LAMBDA r : IF r.error = "none" /\ ~archive_open
                            THEN [w |-> r.w, error |-> "ValueError: Archive is closed"]
                            ELSE r)
      [] k = "RARSTREAM" -> [w |-> w, error |-> "ValueError: does not support opening"]

\* reader.open(member)
ReaderOpen(h) ==
    /\ \E r \in {OpenOf(kind, World, h)} :
           /\ SetWorld(r.w)
           /\ ret' = [op |-> "open", error |-> r.error]
    /\ UNCHANGED <<concvars, kind, archive, tarvars, gen, iters, lifevars, streamvars>>

\* reader.get_archive_info()
GetArchiveInfo ==
    /\ ret' = [op |-> "get_archive_info",
               error |-> IF archive_open THEN "none"
                         ELSE IF kind \in {"RAR", "RARSTREAM"}
                         THEN "ArchiveError: Archive is closed"
                         ELSE "ValueError: Archive is closed"]
    /\ UNCHANGED <<regvars, concvars, readervars>>

\* the first error of the filter over list[i..]
RECURSIVE FilterError(_, _, _, _, _)
FilterError(sel, flt, mem, list, i) ==
    IF i > Len(list) THEN "none"
    ELSE IF ApplyFilter(sel, flt, mem, list[i]).error # "none"
    THEN ApplyFilter(sel, flt, mem, list[i]).error
    ELSE FilterError(sel, flt, mem, list, i + 1)

\* _extract_pending_files: the files the walk left pending are opened in turn
PendingFiles(sel, flt, mem, list) ==
    {list[i] : i \in {j \in DOMAIN list :
                          /\ ApplyFilter(sel, flt, mem, list[j]).member # NoMember
                          /\ IsFile(mem[list[j]])}}

\* _extractall_with_random_access after get_members has returned `list`
ExtractListed(k, w, sel, flt, list) ==
    IF FilterError(sel, flt, w.reg.members, list, 1) # "none"
    THEN [w |-> w, error |-> FilterError(sel, flt, w.reg.members, list, 1)]
    ELSE IF PendingFiles(sel, flt, w.reg.members, list) = {} THEN [w |-> w, error |-> "none"]
    ELSE OpenOf(k, w, CHOOSE h \in PendingFiles(sel, flt, w.reg.members, list) : TRUE)

\* ArchiveReader.extractall
ExtractallOf(k, w, sel, flt) ==
    IF RandomAccessSupported(k)
    THEN With(GetMembersOf(k, w),
              LAMBDA gm : IF gm.error # "none" THEN [w |-> gm.w, error |-> gm.error]
                          ELSE ExtractListed(k, gm.w, sel, flt, gm.list))
    ELSE With(Drain(w, NewFrame(k, sel, flt)), LAMBDA d : [w |-> d.w, error |-> d.error])

\* reader.extractall()
Extractall ==
    /\ \E r \in {ExtractallOf(kind, World, SelNone, FltNone)} :
           /\ SetWorld(r.w)
           /\ ret' = [op |-> "extractall", error |-> r.error]
    /\ UNCHANGED <<concvars, kind, archive, tarvars, gen, iters, lifevars, streamvars>>

\* what extract leaves behind, with the calls it made: extract_member and
\* apply_metadata on its own ExtractionHelper (lines 512, 516), and
\* self.extractall (line 522)
ExtractCalls(r, extract_member, apply_metadata, extractall) ==
    [w |-> r.w, error |-> r.error, extract_member |-> extract_member,
     apply_metadata |-> apply_metadata, extractall |-> extractall]

\* lines 518-527: extractall(path, members=[member_or_filename])
ExtractFallBack(k, w, name, extract_member, apply_metadata) ==
    With(ExtractallOf(k, w, SelCollection({}, {name}), FltNone),
         LAMBDA r : ExtractCalls(r, extract_member, apply_metadata, TRUE))

\* ArchiveReader.extract(filename): a reader with random access extracts the
\* member itself and then falls through to extractall like any other
ExtractOf(k, w, name) ==
    IF RandomAccessSupported(k)
    THEN With(GetMemberOf(k, w, name),
              LAMBDA gm :
                  IF gm.error # "none" THEN ExtractCalls(gm, 0, 0, FALSE)
                  ELSE With(IF IsFile(gm.w.reg.members[gm.member])
                            THEN OpenOf(k, gm.w, gm.member)
                            ELSE [w |-> gm.w, error |-> "none"],
                            LAMBDA o : IF o.error # "none" THEN ExtractCalls(o, 0, 0, FALSE)
                                       ELSE ExtractFallBack(k, o.w, name, 1, 1)))
    ELSE ExtractFallBack(k, w, name, 0, 0)

\* reader.extract(filename)
Extract(name) ==
    /\ \E r \in {ExtractOf(kind, World, name)} :
           /\ SetWorld(r.w)
           /\ ret' = [op |-> "extract", error |-> r.error,
                      extract_member |-> r.extract_member,
                      apply_metadata |-> r.apply_metadata, extractall |-> r.extractall]
    /\ UNCHANGED <<concvars, kind, archive, tarvars, gen, iters, lifevars, streamvars>>

CloseNames == {Fa, FdSlash}

NextClose ==
    \/ Len(iters) < MaxLifeIters /\ IterMembersWithIo(SelNone, FltNone)
    \/ Advance
    \/ Abandon
    \/ GetMembers
    \/ \E via \in {"reader", "wrapper"} : Close(via)
    \/ EnterScope
    \/ \E exc \in BOOLEAN : ExitScope(exc)
    \/ GetMembersIfAvailable
    \/ \E name \in CloseNames : ReaderGetMember(name)
    \/ \E h \in DOMAIN members : ReaderOpen(h)
    \/ GetArchiveInfo
    \/ \E name \in CloseNames : Extract(name)
    \/ Extractall

SpecClose == InitReader /\ [][NextClose]_vars

----------------------------------------------------------------------------
(* Claims about close (specification SpecClose).                           *)

\* the operations a consumer calls on a reader; the call of
\* iter_members_with_io counts by the first next() on its generator
ReaderOps ==
    {"get_members", "get_members_if_available", "get_member", "next", "open",
     "get_archive_info", "extract", "extractall"}

\* C15: once close() has returned on a reader, every later get_members,
\* get_members_if_available, get_member, iter_members_with_io, open,
\* get_archive_info, extract and extractall ends in an error.
C15_ClosedReaderFails ==
    (closes > 0 /\ ret.op \in ReaderOps) => ret.error # "none"

\* what a close() can change on the reader
ReaderState == <<regvars, members_cache, archive_open, fileobj_open, gen>>

\* C16: a close() after the first raises no error and changes nothing on
\* the reader, directly or through the wrapper, and leaving a with-block
\* calls close() whether or not an exception is passing through.
C16_CloseIdempotentAndScoped ==
    [][/\ (closes >= 1 /\ closes' = closes + 1) =>
              (ret'.error = "none" /\ ReaderState' = ReaderState)
       /\ (scope = "inside" /\ scope' = "exited") =>
              (closes' = closes + 1 /\ (kind # "RARSTREAM" => ~archive_open'))]_vars

\* a second close() has returned, and so has the __exit__ of a with-block
\* left by an exception
C16_Witness ==
    /\ closes = 2
    /\ scope = "exited"
    /\ ret.op = "__exit__"
    /\ ret.exc

\* C24: on a reader that is not closed, get_members_if_available returns
\* the registry snapshot when all members are registered (also on a
\* streaming-only TAR reader after a complete pass); otherwise, when
\* members_list_available is true, it walks the whole archive and returns
\* the list, and when it is false it returns the not-available signal;
\* get_members raises whenever members_list_available is false.
C24_MembersIfAvailable ==
    [][/\ (ret'.op = "get_members_if_available" /\ closes = 0 /\ ret'.error = "none") =>
              IF all_members_registered
              THEN /\ ret'.available
                   /\ ret'.list = member_id_to_member
                   /\ member_id_to_member' = member_id_to_member
              ELSE IF MembersListAvailable(kind)
              THEN /\ ret'.available
                   /\ all_members_registered'
                   /\ ret'.list = member_id_to_member'
              ELSE ~ret'.available
       /\ (ret'.op = "get_members" /\ ~MembersListAvailable(kind)) =>
              ret'.error # "none"]_vars

\* C25: extract(member) on a random-access reader that returns without an
\* error has passed the member to its extraction helper once and applied the
\* metadata once, and has not run extractall; extractall is run only on a
\* reader without random access.
C25_ExtractOnceWithoutExtractall ==
    ret.op = "extract" =>
        /\ (RandomAccessSupported(kind) /\ ret.error = "none") =>
               (ret.extract_member = 1 /\ ret.apply_metadata = 1)
        /\ ret.extractall => ~RandomAccessSupported(kind)

----------------------------------------------------------------------------
(* Specification SpecWrapper: a reader wrapped in a                        *)
(* StreamingOnlyArchiveReaderWrapper; the consumer holds the wrapper only  *)
(* and calls its operations in any order.                                  *)

\* the ValueError raised by the wrapper's get_members, open and extract
Unsupported == "ValueError: Streaming-only archive reader does not support"

\* the wrapper's own get_members(), open(member) and extract(name)
WrapperUnsupported(op) ==
    /\ ret' = [op |-> op, via |-> "wrapper", error |-> Unsupported]
    /\ UNCHANGED <<regvars, concvars, readervars>>

\* wrapper.get_member(...): the wrapper does not override it and its
\* __init__ does not call ArchiveReader.__init__, so ArchiveReader.get_member
\* runs on an object that has no _archive_id (a member given) and no
\* _all_members_registered (a filename given)
WrapperGetMember(arg) ==
    /\ ret' = [op |-> "get_member", via |-> "wrapper", arg |-> arg,
               error |-> "AttributeError"]
    /\ UNCHANGED <<regvars, concvars, readervars>>

\* wrapper.has_random_access()
WrapperHasRandomAccess ==
    /\ ret' = [op |-> "has_random_access", via |-> "wrapper", error |-> "none",
               value |-> FALSE]
    /\ UNCHANGED <<regvars, concvars, readervars>>

\* wrapper.get_members_if_available() returns the reader's
WrapperGetMembersIfAvailable ==
    /\ \E gm \in {GetMembersIfAvailableOf(kind, World)} :
           /\ SetWorld(gm.w)
           /\ ret' = [op |-> "get_members_if_available", via |-> "wrapper",
                      error |-> gm.error]
    /\ UNCHANGED <<concvars, kind, archive, tarvars, gen, iters, lifevars, streamvars>>

\* wrapper.iter_members_with_io(...) returns the reader's generator
WrapperIterMembersWithIo(sel, flt) ==
    /\ ~GenLive
    /\ Len(iters) < MaxLifeIters
    /\ gen' = NewFrame(kind, sel, flt)
    /\ iters' = Append(iters, [sel |-> sel, flt |-> flt, out |-> <<>>,
                               status |-> "created", upto |-> 0, error |-> "none",
                               open |-> {}])
    /\ ret' = [op |-> "iter_members_with_io", via |-> "wrapper", error |-> "none"]
    /\ UNCHANGED <<regvars, concvars, kind, archive, tarvars, members_cache, tar_members_read,
                   tar_loaded, lifevars, streamvars>>

\* wrapper.get_archive_info() returns the reader's
WrapperGetArchiveInfo ==
    /\ ret' = [op |-> "get_archive_info", via |-> "wrapper",
               error |-> IF archive_open THEN "none"
                         ELSE IF kind \in {"RAR", "RARSTREAM"}
                         THEN "ArchiveError: Archive is closed"
                         ELSE "ValueError: Archive is closed"]
    /\ UNCHANGED <<regvars, concvars, readervars>>

\* wrapper.extractall() returns the reader's
WrapperExtractall ==
    /\ \E r \in {ExtractallOf(kind, World, SelNone, FltNone)} :
           /\ SetWorld(r.w)
           /\ ret' = [op |-> "extractall", via |-> "wrapper", error |-> r.error]
    /\ UNCHANGED <<concvars, kind, archive, tarvars, gen, iters, lifevars, streamvars>>

\* wrapper.close()
WrapperClose == Close("wrapper")

NextWrapper ==
    \/ \E op \in {"get_members", "open", "extract"} : WrapperUnsupported(op)
    \/ \E arg \in {"member", "filename"} : WrapperGetMember(arg)
    \/ WrapperHasRandomAccess
    \/ WrapperGetMembersIfAvailable
    \/ WrapperIterMembersWithIo(SelNone, FltNone)
    \/ Advance
    \/ Abandon
    \/ WrapperGetArchiveInfo
    \/ WrapperExtractall
    \/ WrapperClose

SpecWrapper == InitReader /\ [][NextWrapper]_vars

----------------------------------------------------------------------------
(* Claims about the streaming-only wrapper (specification SpecWrapper).    *)

\* the step is a call of operation op on the wrapper
WrapperCall(op) == "via" \in DOMAIN ret' /\ ret'.via = "wrapper" /\ ret'.op = op

\* C23: on a StreamingOnlyArchiveReaderWrapper, open, get_members, get_member
\* and extract fail with the unsupported-operation error and leave the
\* wrapped reader unchanged, has_random_access() is false, and
\* get_members_if_available, get_archive_info, extractall and close do to the
\* wrapped reader, and raise, what the reader's own operation does.
C23_WrapperRefusesRandomAccess ==
    [][/\ \A op \in {"open", "get_members", "get_member", "extract"} :
             WrapperCall(op) =>
                 (ret'.error = Unsupported /\ UNCHANGED <<regvars, readervars>>)
       /\ WrapperCall("has_random_access") => ~ret'.value
       /\ WrapperCall("get_members_if_available") =>
              \E gm \in {GetMembersIfAvailableOf(kind, World)} :
                  SetWorld(gm.w) /\ ret'.error = gm.error
       /\ WrapperCall("extractall") =>
              \E r \in {ExtractallOf(kind, World, SelNone, FltNone)} :
                  SetWorld(r.w) /\ ret'.error = r.error
       /\ WrapperCall("get_archive_info") =>
              (UNCHANGED <<regvars, readervars>> /\ (ret'.error = "none" <=> archive_open))
       /\ WrapperCall("close") =>
              (SetLifeState(CloseOf(kind, LifeState)) /\ ret'.error = "none")]_vars

----------------------------------------------------------------------------
(* RAR5 password check and CRC check (rar_reader.py:89-210). The hashes    *)
(* are modelled as injective functions of their inputs: a derived value    *)
(* equals a stored one exactly when it was derived from the same inputs.   *)

\* sizes of the two parts of a RAR5 password check value
RAR5_PW_CHECK_SIZE == 8
RAR5_PW_SUM_SIZE == 4

\* a password argument: absent, the one the archive was encrypted with, or
\* another one
NoPwd == "None"
Passwords == {NoPwd, "good", "bad"}

\* hashlib.sha256(hdr_check).digest()[:RAR5_PW_SUM_SIZE]
Sha256Prefix(hdr_check) == <<"sha256", hdr_check>>

\* lines 122-128: the PBKDF2 hash of the password, folded to 8 bytes
PwdCheck(password, salt, kdf_count) == <<"pbkdf2", password, salt, kdf_count>>

\* the check values a RAR5 encryption record can carry: size bytes, of which
\* the first 8 are hdr_check and the rest hdr_sum
CheckValues ==
    [size : {RAR5_PW_CHECK_SIZE + RAR5_PW_SUM_SIZE - 1,
             RAR5_PW_CHECK_SIZE + RAR5_PW_SUM_SIZE,
             RAR5_PW_CHECK_SIZE + RAR5_PW_SUM_SIZE + 1},
     hdr_check : {PwdCheck("good", "salt", 15)},
     hdr_sum : {Sha256Prefix(PwdCheck("good", "salt", 15)),
                Sha256Prefix(PwdCheck("other", "salt", 15))}]

\* get_encryption_info: None for a RAR3 record or a record without
\* file_encryption, else the encryption record
NoEncData == [present |-> FALSE]
EncData ==
    {NoEncData} \cup
    [present : {TRUE}, has_check : BOOLEAN, tweaked : BOOLEAN, salt : {"salt"},
     kdf_count : {15}, check_value : CheckValues]

\* a RarInfo as the two functions read it: needs_password() is true for an
\* encrypted RAR3 record and for a RAR5 record with an encryption record
RarInfos ==
    {info \in [needs_password : BOOLEAN, encdata : EncData] :
        info.encdata.present => info.needs_password}

\* _verify_rar5_password_internal
VerifyRar5PasswordInternal(password, salt, kdf_count, check_value) ==
    IF check_value.size # RAR5_PW_CHECK_SIZE + RAR5_PW_SUM_SIZE THEN "UNKNOWN"
    ELSE IF Sha256Prefix(check_value.hdr_check) # check_value.hdr_sum THEN "UNKNOWN"
    ELSE IF PwdCheck(password, salt, kdf_count) # check_value.hdr_check THEN "INCORRECT"
    ELSE "CORRECT"

\* verify_rar5_password
VerifyRar5Password(password, rar_info) ==
    IF ~rar_info.needs_password THEN "CORRECT"
    ELSE IF password = NoPwd THEN "INCORRECT"
    ELSE IF ~rar_info.encdata.present \/ ~rar_info.encdata.has_check THEN "UNKNOWN"
    ELSE VerifyRar5PasswordInternal(password, rar_info.encdata.salt,
                                    rar_info.encdata.kdf_count,
                                    rar_info.encdata.check_value)

\* the values of the running checksum; the model keeps 16 of the 32 bits of
\* zlib.crc32, no claim depends on the width
CrcModulus == 2 ^ 16

\* zlib.crc32(data, crc) over the bytes <<record, offset>> of the pipe, a
\* running checksum with crc32(b"") = 0
RECURSIVE Crc32(_, _)
Crc32(data, crc) ==
    IF data = <<>> THEN crc
    ELSE Crc32(Tail(data), (crc * 33 + Head(data)[1] * 16 + Head(data)[2]) % CrcModulus)

\* convert_crc_to_encrypted: the HMAC of the CRC under a key derived from the
\* password
ConvertCrcToEncrypted(crc, password, salt, kdf_count) ==
    <<"hmac", crc, password, salt, kdf_count>>

\* check_rarinfo_crc
CheckRarinfoCrc(rarinfo, password, computed_crc) ==
    IF ~rarinfo.encdata.present \/ ~rarinfo.encdata.tweaked
    THEN computed_crc = rarinfo.CRC
    ELSE IF password = NoPwd THEN FALSE
    ELSE ConvertCrcToEncrypted(computed_crc, password, rarinfo.encdata.salt,
                               rarinfo.encdata.kdf_count) = rarinfo.CRC

----------------------------------------------------------------------------
(* Specification SpecPassword: verify_rar5_password applied to one record  *)
(* and one password, both drawn from the sets above.                       *)

InitPassword ==
    /\ EmptyRegistry
    /\ ret = NoRet
    /\ ThreadsIdle
    /\ kind = "none"
    /\ archive = <<>>
    /\ IntactTar
    /\ members_cache = [set |-> FALSE, list |-> <<>>]
    /\ tar_members_read = 0
    /\ tar_loaded = FALSE
    /\ gen = NoGen
    /\ iters = <<>>
    /\ archive_open = TRUE
    /\ fileobj_open = FALSE
    /\ closes = 0
    /\ scope = "none"
    /\ sizes = <<>>
    /\ list_fails = FALSE
    /\ crc_fails = FALSE
    /\ encryption \in {<<info>> : info \in RarInfos}
    /\ reader_pwd \in Passwords
    /\ proc = "none"
    /\ pipe = [data |-> <<>>, closed |-> FALSE]
    /\ lock = "free"
    /\ rs = [state |-> "none", list |-> <<>>, idx |-> 0, pwd |-> "None"]
    /\ ms = <<>>
    /\ blocked = FALSE

\* verify_rar5_password(password, rar_info)
VerifyPassword ==
    /\ ret = NoRet
    /\ ret' = [op |-> "verify_rar5_password",
               result |-> VerifyRar5Password(reader_pwd, encryption[1])]
    /\ UNCHANGED <<regvars, concvars, readervars>>

NextPassword == VerifyPassword

SpecPassword == InitPassword /\ [][NextPassword]_vars

\* the record carries check data a password can be compared with: an
\* encryption record with the has-check-data flag, a check value of 12 bytes
\* whose SHA-256 prefix agrees with the stored sum
UsableCheckData(info) ==
    /\ info.encdata.present
    /\ info.encdata.has_check
    /\ info.encdata.check_value.size = RAR5_PW_CHECK_SIZE + RAR5_PW_SUM_SIZE
    /\ info.encdata.check_value.hdr_sum = Sha256Prefix(info.encdata.check_value.hdr_check)

\* C28: for a record that needs a password and carries no usable check data
\* verify_rar5_password returns UNKNOWN for every password, an absent one
\* included; for a record that needs no password it returns CORRECT; and it
\* returns INCORRECT only when a check derived from a password differs from
\* usable check data.
C28_UnknownWithoutCheckData ==
    ret.op = "verify_rar5_password" =>
        /\ ~encryption[1].needs_password => ret.result = "CORRECT"
        /\ (encryption[1].needs_password /\ ~UsableCheckData(encryption[1])) =>
               ret.result = "UNKNOWN"
        /\ ret.result = "INCORRECT" =>
               /\ encryption[1].needs_password
               /\ UsableCheckData(encryption[1])
               /\ reader_pwd # NoPwd
               /\ PwdCheck(reader_pwd, encryption[1].encdata.salt,
                           encryption[1].encdata.kdf_count)
                      # encryption[1].encdata.check_value.hdr_check

----------------------------------------------------------------------------
(* Specification SpecRarStream: one RarStreamReader and its consumer. The  *)
(* consumer makes one iter_members_with_io generator, advances it, reads   *)
(* and closes the member streams it was given, drops the generator and     *)
(* closes the reader, all from one thread.                                 *)

\* records in a RAR archive read through unrar
MaxStreamRecords == 2

\* file_size of a member
MaxFileSize == 2

\* the chunk RarStreamMemberFile.close asks read for
SkipChunk == 65536

StreamRecords ==
    {Rec(Fa, "FILE", NoTarget), Rec(FdSlash, "DIR", NoTarget), Rec(Fd, "SYMLINK", Fa)}

\* the records whose link target BaseRarReader._get_link_target reads from the
\* archive's data
ReadsLinkTarget(a) == {i \in DOMAIN a : a[i].type = "SYMLINK"}

\* the file sizes the records of archive a can declare
SizesOf(a) ==
    {sz \in [DOMAIN a -> 0..MaxFileSize] : \A i \in DOMAIN a : a[i].type # "FILE" => sz[i] = 0}

\* the argument n of read(n): -1 for all, and sizes up to one past any file
ReadSizes == {-1} \cup (0..(MaxFileSize + 1))

\* the encryption a record of the archive can have: none, that of an
\* encrypted RAR3 record (no encryption record), and that of a RAR5 record
\* with tweaked checksums and the check data of the password "good"
StreamRarInfos ==
    {info \in RarInfos :
        info.encdata.present =>
            /\ info.encdata.has_check /\ info.encdata.tweaked
            /\ info.encdata.check_value.size = RAR5_PW_CHECK_SIZE + RAR5_PW_SUM_SIZE
            /\ info.encdata.check_value.hdr_sum =
                   Sha256Prefix(info.encdata.check_value.hdr_check)}

\* the encryption of the records of archive a: only files are encrypted
EncryptionsOf(a) ==
    {en \in [DOMAIN a -> StreamRarInfos] :
        \A i \in DOMAIN a : a[i].type # "FILE" => ~en[i].needs_password}

\* the data of record i
Content(sz, i) == [k \in 1..sz[i] |-> <<i, k>>]

\* the records `unrar p -inul -p<password>` leaves out of its output without
\* a message: the encrypted ones when the password is not theirs
Skipped(en, password) == {i \in DOMAIN en : en[i].needs_password /\ password # "good"}

\* what `unrar p` writes to its stdout for records i.. of the archive: the
\* bytes of each file in archive order, here each byte named <<record, offset>>
RECURSIVE UnrarOutput(_, _, _, _)
UnrarOutput(a, sz, skip, i) ==
    IF i > Len(a) THEN <<>>
    ELSE (IF i \in skip THEN <<>> ELSE Content(sz, i)) \o UnrarOutput(a, sz, skip, i + 1)

\* the CRC32 the archiver computed for record i: that of its data, or another
\* value when the archive is damaged
ArchivedCrc(i) ==
    (Crc32(Content(sizes, i), 0) + (IF crc_fails THEN 1 ELSE 0)) % CrcModulus

\* RarInfo.CRC of record i: the CRC32 of its data, for a record with tweaked
\* checksums its HMAC under the archive's password
StoredCrc(i) ==
    IF encryption[i].encdata.present /\ encryption[i].encdata.tweaked
    THEN ConvertCrcToEncrypted(ArchivedCrc(i), "good", encryption[i].encdata.salt,
                               encryption[i].encdata.kdf_count)
    ELSE ArchivedCrc(i)

\* member.raw_info of record i
RawInfo(i) ==
    [needs_password |-> encryption[i].needs_password,
     encdata |-> encryption[i].encdata, CRC |-> StoredCrc(i)]

InitRarStream ==
    /\ EmptyRegistry
    /\ ret = NoRet
    /\ ThreadsIdle
    /\ kind = "RARSTREAM"
    /\ archive \in UNION {[1..n -> StreamRecords] : n \in 0..MaxStreamRecords}
    /\ IntactTar
    /\ members_cache = NoCache
    /\ TarOpened
    /\ gen = NoGen
    /\ iters = <<>>
    /\ Opened
    /\ sizes \in SizesOf(archive)
    /\ list_fails \in {FALSE} \cup {ReadsLinkTarget(archive) # {}}
    /\ crc_fails \in BOOLEAN
    /\ encryption \in EncryptionsOf(archive)
    /\ reader_pwd \in Passwords
    /\ proc = "none"
    /\ pipe = [data |-> <<>>, closed |-> FALSE]
    /\ lock = "free"
    /\ rs = [state |-> "none", list |-> <<>>, idx |-> 0, pwd |-> "None"]
    /\ ms = <<>>
    /\ blocked = FALSE

\* RarStreamMemberFile.__init__; taken is the history of the bytes the stream
\* took from the pipe, close_called that close() was entered on it
NewStream(h, size, raw_info, pwd) ==
    [class |-> "RarStreamMemberFile", member |-> h, size |-> size, remaining |-> size,
     closed |-> FALSE, crc_checked |-> FALSE, taken |-> <<>>, actual_crc |-> 0,
     raw_info |-> raw_info, pwd |-> pwd, crc_checks |-> 0, crc_error |-> "none",
     close_called |-> FALSE]

\* line 501: to_read
ToRead(remaining, n) ==
    IF n < 0 THEN remaining ELSE IF remaining < n THEN remaining ELSE n

\* RarStreamMemberFile._check_crc
\* crc_checks counts the calls of check_rarinfo_crc, crc_error keeps what the
\* check raised
CheckCrc(st) ==
    IF st.crc_checked THEN [st |-> st, error |-> "none"]
    ELSE With(IF CheckRarinfoCrc(st.raw_info, st.pwd, st.actual_crc)
              THEN "none" ELSE "CRCMismatchError",
              LAMBDA e : [st |-> [st EXCEPT !.crc_checked = TRUE,
                                            !.crc_checks = @ + 1, !.crc_error = e],
                          error |-> e])

\* read(k) on the subprocess's buffered stdout: k bytes, fewer at its end
PipeRead(p, k) ==
    LET n == IF k < Len(p.data) THEN k ELSE Len(p.data)
    IN  [data |-> SubSeq(p.data, 1, n),
         pipe |-> [p EXCEPT !.data = SubSeq(p.data, n + 1, Len(p.data))]]

\* what a call on a member stream leaves behind
StreamResult(st, p, lk, error, isblocked) ==
    [st |-> st, pipe |-> p, lock |-> lk, error |-> error, blocked |-> isblocked]

\* lines 505-513: the bytes read are accounted for
ReadAccounted(st, r, lk) ==
    With([st EXCEPT !.remaining = @ - Len(r.data), !.taken = @ \o r.data,
                    !.actual_crc = Crc32(r.data, @)],
         LAMBDA st1 :
             IF st1.remaining = 0
             THEN StreamResult(CheckCrc(st1).st, r.pipe, lk, CheckCrc(st1).error, FALSE)
             ELSE StreamResult(st1, r.pipe, lk, "none", FALSE))

\* RarStreamMemberFile.read(n) called while the lock is in state lk: `with
\* self._lock` waits until the lock is free, and the lock is free again when
\* read returns or raises
MemberRead(st, p, lk, n) ==
    IF st.closed THEN StreamResult(st, p, lk, "ValueError: closed file", FALSE)
    ELSE IF lk # "free" THEN StreamResult(st, p, lk, "none", TRUE)
    ELSE IF st.remaining = 0
    THEN StreamResult(CheckCrc(st).st, p, lk, CheckCrc(st).error, FALSE)
    ELSE IF p.closed THEN StreamResult(st, p, lk, "ValueError: read of closed file", FALSE)
    ELSE IF PipeRead(p, ToRead(st.remaining, n)).data = <<>>
    THEN StreamResult(st, p, lk, "EOFError", FALSE)
    ELSE ReadAccounted(st, PipeRead(p, ToRead(st.remaining, n)), lk)

\* RarStreamMemberFile.close() called while the lock is in state lk: it takes
\* the lock and, holding it, calls read for the bytes that remain
MemberClose(st, p, lk) ==
    IF st.closed THEN StreamResult(st, p, lk, "none", FALSE)
    ELSE IF lk # "free"
    THEN StreamResult([st EXCEPT !.close_called = TRUE], p, lk, "none", TRUE)
    ELSE IF st.remaining > 0
    THEN MemberRead([st EXCEPT !.close_called = TRUE], p, "close",
                    IF SkipChunk < st.remaining THEN SkipChunk ELSE st.remaining)
    ELSE With(CheckCrc([st EXCEPT !.close_called = TRUE]),
              LAMBDA c : StreamResult([c.st EXCEPT !.closed = TRUE], p, "free",
                                      c.error, FALSE))

\* ErrorIOStream(exc): a stream that holds no other stream; every read raises
\* exc and close returns
ErrorIOStream(h, exc) ==
    [class |-> "ErrorIOStream", member |-> h, size |-> 0, remaining |-> 0,
     closed |-> FALSE, crc_checked |-> FALSE, taken |-> <<>>, actual_crc |-> 0,
     raw_info |-> NoEncData, pwd |-> NoPwd, crc_checks |-> 0, crc_error |-> "none",
     close_called |-> FALSE, exc |-> exc]

ErrorIOStreamRead(st, p, lk) == StreamResult(st, p, lk, st.exc, FALSE)

ErrorIOStreamClose(st, p, lk) ==
    StreamResult([st EXCEPT !.closed = TRUE, !.close_called = TRUE], p, lk, "none", FALSE)

\* stream.read(n) and stream.close() on a stream the iteration handed out
StreamRead(st, p, lk, n) ==
    IF st.class = "ErrorIOStream" THEN ErrorIOStreamRead(st, p, lk)
    ELSE MemberRead(st, p, lk, n)

StreamClose(st, p, lk) ==
    IF st.class = "ErrorIOStream" THEN ErrorIOStreamClose(st, p, lk)
    ELSE MemberClose(st, p, lk)

\* a _get_member_file that hands every file a RarStreamMemberFile
GetMemberFileUnchecked(h, i) == NewStream(h, sizes[i], RawInfo(i), reader_pwd)

\* RarStreamReader._get_member_file for the member h of record i, a file:
\* the password checked and handed to the stream is the reader's
GetMemberFile(h, i) ==
    IF encryption[i].needs_password
           /\ VerifyRar5Password(reader_pwd, RawInfo(i)) = "INCORRECT"
    THEN ErrorIOStream(h, "ArchiveEncryptedError")
    ELSE NewStream(h, sizes[i], RawInfo(i), reader_pwd)

\* _open_unrar_stream(pwd): the password unrar is started with is the
\* iteration's, the reader's when the iteration has none
UnrarPassword(pwd) == IF pwd = NoPwd THEN reader_pwd ELSE pwd

\* the stdout of the unrar started by the iteration
UnrarStdout(pwd) ==
    [data |-> UnrarOutput(archive, sizes, Skipped(encryption, UnrarPassword(pwd)), 1),
     closed |-> FALSE]

\* everything a step of the iteration can change, as one record, and back
StreamWorld ==
    [w |-> World, proc |-> proc, pipe |-> pipe, lock |-> lock, ms |-> ms,
     blocked |-> blocked, rs |-> rs, error |-> "none"]

SetStreamWorld(b) ==
    /\ SetWorld(b.w)
    /\ proc' = b.proc
    /\ pipe' = b.pipe
    /\ lock' = b.lock
    /\ ms' = b.ms
    /\ blocked' = b.blocked
    /\ rs' = b.rs

\* lines 662-665: the finally block, on the way to the generator's end
RsFinally(b, state, error) ==
    [b EXCEPT !.proc = "waited", !.pipe.closed = TRUE, !.rs.state = state, !.error = error]

\* lines 655-657: the loop takes the next member and yields it with its
\* stream, or ends
RsLoop(b, list, idx) ==
    IF idx >= Len(list) THEN RsFinally([b EXCEPT !.rs.list = list, !.rs.idx = idx],
                                       "finished", "none")
    ELSE [b EXCEPT !.ms = IF IsFile(b.w.reg.members[list[idx + 1]])
                          THEN Put(b.ms, idx + 1, GetMemberFile(list[idx + 1], idx + 1))
                          ELSE b.ms,
                   !.rs = [b.rs EXCEPT !.state = "suspended", !.list = list,
                                       !.idx = idx + 1]]

\* BaseRarReader.get_members when reading a link target raises: _members was
\* set to a list before the loop, the records before the link are registered
RECURSIVE ListUntilFailure(_, _)
ListUntilFailure(w, i) ==
    IF i \in ReadsLinkTarget(archive) THEN w
    ELSE With(RegisterMember(w.reg, archive[i]),
              LAMBDA reg1 :
                  ListUntilFailure([w EXCEPT !.reg = reg1,
                                             !.cache.list = Append(@, Len(reg1.members))],
                                   i + 1))

\* lines 643-655: the first next() starts unrar, lists the members outside
\* the try block and enters the loop
RsStart(b, spawned) ==
    IF ~archive_open
    THEN [b EXCEPT !.rs.state = "raised", !.error = "ValueError: Archive is closed"]
    ELSE IF ~spawned
    THEN [b EXCEPT !.rs.state = "raised", !.error = "PackageNotInstalledError"]
    ELSE IF list_fails /\ ~b.w.cache.set
    THEN [b EXCEPT !.proc = "running",
                   !.pipe = UnrarStdout(b.rs.pwd),
                   !.w = ListUntilFailure([b.w EXCEPT !.cache = [set |-> TRUE,
                                                                 list |-> <<>>]], 1),
                   !.rs.state = "raised", !.error = "rarfile.Error"]
    ELSE With(AdapterGetMembers(b.w),
              LAMBDA gm :
                  RsLoop([b EXCEPT !.proc = "running",
                                   !.pipe = UnrarStdout(b.rs.pwd),
                                   !.w = gm.w],
                         gm.list, 0))

\* lines 658-661: a later next() closes the stream of the pair it yielded
\* and goes round the loop
RsResume(b) ==
    IF b.rs.idx \in DOMAIN b.ms
    THEN With(StreamClose(b.ms[b.rs.idx], b.pipe, b.lock),
              LAMBDA c :
                  With([b EXCEPT !.ms[b.rs.idx] = c.st, !.pipe = c.pipe, !.lock = c.lock],
                       LAMBDA b1 :
                           IF c.blocked
                           THEN [b1 EXCEPT !.blocked = TRUE, !.rs.state = "running"]
                           ELSE IF c.error # "none" THEN RsFinally(b1, "raised", c.error)
                           ELSE RsLoop(b1, b.rs.list, b.rs.idx)))
    ELSE RsLoop(b, b.rs.list, b.rs.idx)

\* reader.iter_members_with_io(pwd=pwd): a generator is made, none of its
\* body runs
RsIterMembersWithIo(pwd) ==
    /\ ~blocked
    /\ rs.state = "none"
    /\ rs' = [rs EXCEPT !.state = "created", !.pwd = pwd]
    /\ ret' = [op |-> "iter_members_with_io", error |-> "none"]
    /\ UNCHANGED <<regvars, concvars, kind, archive, tarvars, members_cache, tar_members_read,
                   tar_loaded, gen, iters, lifevars, sizes, list_fails, crc_fails, encryption,
                   reader_pwd, proc,
                   pipe, lock, ms, blocked>>

\* next(gen); unrar is installed or not
RsNext ==
    /\ ~blocked
    /\ rs.state \in {"created", "suspended"}
    /\ \E spawned \in BOOLEAN :
           \E b \in {IF rs.state = "created" THEN RsStart(StreamWorld, spawned)
                     ELSE RsResume(StreamWorld)} :
               /\ SetStreamWorld(b)
               /\ ret' = [op |-> IF b.blocked THEN "next (waiting)" ELSE "next",
                          error |-> b.error]
    /\ UNCHANGED <<concvars, kind, archive, tarvars, gen, iters, lifevars, sizes, list_fails,
                   crc_fails, encryption, reader_pwd>>

\* stream.read(n) on the stream yielded for record i
RsRead(i, n) ==
    /\ ~blocked
    /\ \E c \in {StreamRead(ms[i], pipe, lock, n)} :
           /\ ms' = [ms EXCEPT ![i] = c.st]
           /\ pipe' = c.pipe
           /\ lock' = c.lock
           /\ blocked' = c.blocked
           /\ ret' = [op |-> IF c.blocked THEN "read (waiting)" ELSE "read",
                      stream |-> i, error |-> c.error]
    /\ UNCHANGED <<regvars, concvars, kind, archive, tarvars, members_cache, tar_members_read,
                   tar_loaded, gen, iters, lifevars, sizes, list_fails, crc_fails, encryption,
                   reader_pwd, proc, rs>>

\* stream.close() by the consumer on the stream yielded for record i
RsStreamClose(i) ==
    /\ ~blocked
    /\ \E c \in {StreamClose(ms[i], pipe, lock)} :
           /\ ms' = [ms EXCEPT ![i] = c.st]
           /\ pipe' = c.pipe
           /\ lock' = c.lock
           /\ blocked' = c.blocked
           /\ ret' = [op |-> IF c.blocked THEN "stream_close (waiting)" ELSE "stream_close",
                      stream |-> i, error |-> c.error]
    /\ UNCHANGED <<regvars, concvars, kind, archive, tarvars, members_cache, tar_members_read,
                   tar_loaded, gen, iters, lifevars, sizes, list_fails, crc_fails, encryption,
                   reader_pwd, proc, rs>>

\* gen.close(), or the generator collected: GeneratorExit is raised at the
\* yield and the finally block runs; a generator that never started runs
\* nothing
RsAbandon ==
    /\ ~blocked
    /\ rs.state \in {"created", "suspended"}
    /\ \E b \in {IF rs.state = "suspended" THEN RsFinally(StreamWorld, "closed", "none")
                 ELSE [StreamWorld EXCEPT !.rs.state = "closed"]} :
           SetStreamWorld(b)
    /\ ret' = [op |-> "close_generator", error |-> "none"]
    /\ UNCHANGED <<concvars, kind, archive, tarvars, gen, iters, lifevars, sizes, list_fails,
                   crc_fails, encryption, reader_pwd>>

\* reader.close()
RsReaderClose == ~blocked /\ Close("reader")

NextRarStream ==
    \/ \E pwd \in Passwords : RsIterMembersWithIo(pwd)
    \/ RsNext
    \/ \E i \in DOMAIN ms : \E n \in ReadSizes : RsRead(i, n)
    \/ \E i \in DOMAIN ms : RsStreamClose(i)
    \/ RsAbandon
    \/ RsReaderClose

SpecRarStream == InitRarStream /\ [][NextRarStream]_vars

----------------------------------------------------------------------------
(* Claims about RAR streaming (specification SpecRarStream).               *)

\* C17: when the consumer has stopped part-way through an iteration (the
\* generator rests at a yield) and reader.close() has returned, the unrar
\* subprocess is terminated and waited for, its pipe is closed and the
\* decoder is released.
C17_CloseReleasesSubprocess ==
    (ret.op = "close" /\ rs.state = "suspended") =>
        (proc = "waited" /\ pipe.closed /\ ~archive_open)

\* C18: once an iteration that started its subprocess has ended (finished,
\* raised, or closed by the consumer), the subprocess is terminated and
\* waited for and its stdout pipe is closed.
C18_EveryEndTerminates ==
    (rs.state \in {"finished", "raised", "closed"} /\ proc # "none") =>
        (proc = "waited" /\ pipe.closed)

\* C19: close() on a member stream never waits for the lock while close
\* itself holds it.
C19_CloseNeverWaitsOnOwnLock == ~(blocked /\ lock = "close")

\* C20: each member stream takes at most file_size bytes from the pipe, all
\* of them its own member's bytes in order, and exactly file_size bytes once
\* a later pair has been yielded.
C20_StreamTakesItsOwnBytes ==
    \A i \in DOMAIN ms :
        /\ Len(ms[i].taken) <= ms[i].size
        /\ \A k \in DOMAIN ms[i].taken : ms[i].taken[k] = <<i, k>>
        /\ i < rs.idx => Len(ms[i].taken) = ms[i].size


\* the CRC32 of the bytes a stream took is the one the archive stores for
\* its record
CrcMatches(i) == Crc32(ms[i].taken, 0) = ArchivedCrc(i)

\* a step in which the stream of record i verified its CRC
CrcVerifiedNow(i) ==
    /\ i \in DOMAIN ms'
    /\ ms'[i].crc_checks = 1
    /\ i \in DOMAIN ms => ms[i].crc_checks = 0

\* C22: a RAR stream member verifies its CRC exactly once, when all its
\* file_size bytes have been consumed by reads or by the drain of close():
\* never before, always once read has consumed the last byte, and always in
\* a close(); the call that verifies raises the CRC mismatch error exactly
\* when the CRC of the consumed bytes (of the empty input for a member of
\* size 0) is not the stored one.
C22_CrcVerifiedOnceOnFullConsumption ==
    [][\A i \in DOMAIN ms' :
           ms'[i].class = "RarStreamMemberFile" =>
               /\ ms'[i].crc_checks <= 1
               /\ ms'[i].crc_checks = 1 => ms'[i].remaining = 0
               /\ (ms'[i].size > 0 /\ ms'[i].remaining = 0) => ms'[i].crc_checks = 1
               /\ ms'[i].close_called => ms'[i].crc_checks = 1
               /\ CrcVerifiedNow(i) =>
                      ret'.error = IF CrcMatches(i)' THEN "none" ELSE "CRCMismatchError"]_vars

\* the verdict of the password check on the file of record i
Verdict(i) == VerifyRar5Password(reader_pwd, RawInfo(i))

\* the consumer's last call was op on the stream of record i
StreamCall(op, i) == ret'.op = op /\ ret'.stream = i

\* C29: every stream the RAR streaming iteration hands out for a file is,
\* for an encrypted file whose password check says INCORRECT, an error
\* sentinel: each read on it raises the encrypted error, and neither a read
\* nor a close on it takes a byte from the pipe; for every other file it is
\* a member stream that takes at most file_size bytes.
C29_WrongPasswordYieldsSentinel ==
    [][\A i \in DOMAIN ms' :
           IF encryption[i].needs_password /\ Verdict(i) = "INCORRECT"
           THEN /\ ms'[i].class = "ErrorIOStream"
                /\ ms'[i].taken = <<>>
                /\ StreamCall("read", i) =>
                       (ret'.error = "ArchiveEncryptedError" /\ pipe' = pipe)
                /\ StreamCall("stream_close", i) => pipe' = pipe
           ELSE /\ ms'[i].class = "RarStreamMemberFile"
                /\ ms'[i].size = sizes[i]
                /\ Len(ms'[i].taken) <= sizes[i]]_vars

\* an encrypted file whose check said INCORRECT was yielded, a read on its
\* stream raised the encrypted error, and the bytes of a later file are
\* still in the pipe
C29_Witness ==
    /\ ret.op = "read"
    /\ ret.error = "ArchiveEncryptedError"
    /\ encryption[ret.stream].needs_password
    /\ Verdict(ret.stream) = "INCORRECT"
    /\ ms[ret.stream].class = "ErrorIOStream"
    /\ pipe.data # <<>>

----------------------------------------------------------------------------
(* Specification SpecTar: a TarReader over a TAR file whose blocks after   *)
(* the last record may be damaged or missing, opened with or without       *)
(* tar_check_integrity, and a consumer that iterates over it.              *)

\* a 512-byte block after the last record: all zero, or not
Blocks == {"zero", "data"}

\* the first TrailerBlocks blocks after the last record, those the file has
Trailers == UNION {[1..n -> Blocks] : n \in 0..TrailerBlocks}

\* tarfile.open reads the first header: on a file without records it raises
\* unless it finds a block of zeros there, and the reader is not constructed
TrailersOf(a) ==
    IF Len(a) = 0 THEN {t \in Trailers : Len(t) > 0 /\ t[1] = "zero"} ELSE Trailers

\* a random-access TarReader has a seekable file object or is not constructed;
\* a streaming one reads a plain file, or a decompressor that may not seek
SeekableOf(k) == IF k = "TAR" THEN {TRUE} ELSE BOOLEAN

InitTar ==
    /\ EmptyRegistry
    /\ ret = NoRet
    /\ ThreadsIdle
    /\ kind \in TarKinds
    /\ archive \in ArchivesOf(kind)
    /\ tar_check_integrity \in BOOLEAN
    /\ fileobj_seekable \in SeekableOf(kind)
    /\ trailer \in TrailersOf(archive)
    /\ members_cache = [set |-> FALSE, list |-> <<>>]
    /\ TarOpened
    /\ gen = NoGen
    /\ iters = <<>>
    /\ Opened
    /\ NoStream

NextTar ==
    \/ \E call \in Calls : IterMembersWithIo(call.sel, call.flt)
    \/ Advance
    \/ Abandon

SpecTar == InitTar /\ [][NextTar]_vars

----------------------------------------------------------------------------
(* Claims about the TAR integrity check (specification SpecTar).           *)

\* the two blocks after the last record are there and are not all zero
TrailerDamaged ==
    Len(trailer) = TrailerBlocks /\ trailer # [b \in 1..TrailerBlocks |-> "zero"]

Corrupted == "ArchiveCorruptedError: Invalid data after last tarinfo"

\* the check applies: the option is on, the file object seeks, the archive
\* has a record
CheckApplies == tar_check_integrity /\ fileobj_seekable /\ Len(archive) > 0

\* the step is a next() on an iteration over all members, without a filter
PlainNext ==
    /\ ret'.op = "next"
    /\ iters[ThisIter].sel = SelNone
    /\ iters[ThisIter].flt = FltNone

\* C30: on a TAR whose two blocks after the last record are not all zero, a
\* next() of an iteration over all members raises the corrupted error only
\* when the check applies, and then the iteration has yielded every member
\* and the registry is complete; when the check applies the iteration never
\* ends cleanly, and the first iteration on the reader ends with that error
\* after one pair for each record; when the option is off, the archive has
\* no record or the file object does not seek, the first iteration ends
\* without an error after one pair for each record.
C30_TrailerCheckedAfterLastMember ==
    [][(TrailerDamaged /\ PlainNext) =>
           LET it == iters'[ThisIter]
           IN  /\ ret'.error = Corrupted =>
                      /\ CheckApplies
                      /\ all_members_registered'
                      /\ Range(YieldedMembers(it)) = DOMAIN members'
                      /\ gen'.state = "raised"
               /\ CheckApplies => gen'.state # "finished"
               /\ (ThisIter = 1 /\ gen'.state # "suspended") =>
                      /\ YieldedMembers(it) = [k \in 1..Len(archive) |-> k]
                      /\ all_members_registered'
                      /\ ret'.error = (IF CheckApplies THEN Corrupted ELSE "none")]_vars

\* the first iteration over a TAR with a damaged trailer has yielded both
\* records, the registry is complete, and the next() after the last pair
\* raised the corrupted error
C30_Witness ==
    /\ TrailerDamaged
    /\ CheckApplies
    /\ Len(iters) = 1
    /\ iters[1].sel = SelNone /\ iters[1].flt = FltNone
    /\ Len(archive) = MaxRecords
    /\ Len(iters[1].out) = Len(archive)
    /\ all_members_registered
    /\ ret.op = "next"
    /\ ret.error = Corrupted

----------------------------------------------------------------------------
(* The calls _resolve_link_target makes to itself.                         *)

\* the longest chain of nested calls followed for one resolution
MaxResolveCalls == 6

NoCall == [call |-> FALSE, member |-> NoMember, visited |-> {}, via |-> "none"]

\* a resolver that follows a symlink's link target whether or not its
\* member_id is in the visited set
ResolveCalleeUnguarded(mem, fnm, npm, h, visited_members) ==
    LET member == mem[h]
        target_member == Get(npm, NormalizedLinkTarget(member), NoMember)
    IN  IF member.link_target # NoTarget /\ member.type = "SYMLINK"
           /\ target_member # NoMember /\ IsLink(mem[target_member])
        THEN [call |-> TRUE, member |-> target_member,
              visited |-> visited_members \cup {member.member_id}, via |-> "symlink"]
        ELSE NoCall

\* the call _resolve_link_target(member h, visited_members) makes to itself,
\* if it makes one: line 148 for a hardlink whose candidate is a hardlink
\* (visited_members takes its default), lines 179-181 for a symlink whose
\* target is a link that is not in visited_members
ResolveCallee(mem, fnm, npm, h, visited_members) ==
    LET member == mem[h]
    IN  IF member.link_target = NoTarget THEN NoCall
        ELSE IF member.type = "HARDLINK" THEN
            LET cands == HardlinkCandidates(mem, fnm, h)
            IN  IF cands = {} THEN NoCall
                ELSE LET target_member == MaxById(mem, cands)
                     IN  IF mem[target_member].type = "HARDLINK"
                         THEN [call |-> TRUE, member |-> target_member, visited |-> {},
                               via |-> "hardlink"]
                         ELSE NoCall
        ELSE IF member.type = "SYMLINK" THEN
            LET target_member == Get(npm, NormalizedLinkTarget(member), NoMember)
            IN  IF target_member = NoMember THEN NoCall
                ELSE IF IsLink(mem[target_member])
                THEN IF mem[target_member].member_id \in visited_members THEN NoCall
                     ELSE [call |-> TRUE, member |-> target_member,
                           visited |-> visited_members \cup {member.member_id},
                           via |-> "symlink"]
                ELSE NoCall
        ELSE NoCall

\* the nested calls of one resolution, outermost first: the member and the
\* visited set of each call and how it was reached; the chain is cut, with
\* its last call still to make another, after MaxResolveCalls nested calls
RECURSIVE ResolveCallChain(_, _, _, _, _, _, _)
ResolveCallChain(mem, fnm, npm, h, visited_members, via, fuel) ==
    With(ResolveCallee(mem, fnm, npm, h, visited_members),
         LAMBDA c :
             IF ~c.call \/ fuel = 0
             THEN <<[member |-> h, visited |-> visited_members, via |-> via, cut |-> c.call]>>
             ELSE <<[member |-> h, visited |-> visited_members, via |-> via, cut |-> FALSE]>>
                  \o ResolveCallChain(mem, fnm, npm, c.member, c.visited, c.via, fuel - 1))

\* the calls of _resolve_link_target(member h) on the registry as it stands
CallsOfResolve(h) ==
    ResolveCallChain(members, filename_to_members, normalized_path_to_last_member,
                     h, {}, "caller", MaxResolveCalls)

\* C31: resolving any member of any registry ends: the chain of nested
\* calls has at most one call more than the registry has members, each call
\* made for a hardlink is on a member with a strictly lower member_id, and
\* each call made for a symlink is on a member whose member_id is not in the
\* visited set of the calling frame.
C31_ResolutionTerminates ==
    \A h \in DOMAIN members :
        LET chain == CallsOfResolve(h)
        IN  /\ ~chain[Len(chain)].cut
            /\ Len(chain) <= Len(members) + 1
            /\ \A k \in 2..Len(chain) :
                   /\ chain[k].via = "hardlink" =>
                          members[chain[k].member].member_id
                              < members[chain[k - 1].member].member_id
                   /\ chain[k].via = "symlink" =>
                          members[chain[k].member].member_id \notin chain[k - 1].visited

\* a registry of three members in which the resolution of a symlink runs
\* into a symlink cycle and stops at the member it came from, and the
\* resolution of a hardlink follows a hardlink
C31_Witness ==
    /\ Len(members) = MaxMembers
    /\ \E h \in DOMAIN members :
           LET chain == CallsOfResolve(h)
               last == chain[Len(chain)].member
               target == Get(normalized_path_to_last_member,
                             NormalizedLinkTarget(members[last]), NoMember)
           IN  /\ Len(chain) >= 2
               /\ members[last].type = "SYMLINK"
               /\ target # NoMember
               /\ members[target].member_id \in chain[Len(chain)].visited
    /\ \E h \in DOMAIN members :
           \E k \in DOMAIN CallsOfResolve(h) : CallsOfResolve(h)[k].via = "hardlink"

----------------------------------------------------------------------------
(* Claims about hardlink resolution (specification Spec).                  *)

\* the members named as hardlink h's link_target, registered before h
NamedBefore(h) ==
    {c \in DOMAIN members : /\ members[c].filename = members[h].link_target
                            /\ members[c].member_id < members[h].member_id}

\* the one of them registered last, if there is one
LastNamedBefore(h) ==
    IF NamedBefore(h) = {} THEN NoMember
    ELSE CHOOSE c \in NamedBefore(h) :
             \A y \in NamedBefore(h) : members[y].member_id <= members[c].member_id

\* the member a chain of hardlinks starting at h leads to: the first member
\* on it that is not a hardlink, none when the chain breaks off
RECURSIVE HardlinkChainEnd(_)
HardlinkChainEnd(h) ==
    IF members[h].type # "HARDLINK" THEN h
    ELSE IF LastNamedBefore(h) = NoMember THEN NoMember
    ELSE HardlinkChainEnd(LastNamedBefore(h))

\* C32: every registered hardlink h has as its target what its candidate
\* gives, the candidate being the member named h.link_target with the
\* largest member_id below h's: nothing when there is no candidate (also
\* when the name is registered only later), the candidate itself when it is
\* not a hardlink, the candidate's own target and type when it is a
\* hardlink; so h's target is the end of its chain of hardlinks.
C32_HardlinkAdoptsCandidate ==
    \A h \in DOMAIN members :
        members[h].type = "HARDLINK" =>
            LET c == LastNamedBefore(h)
            IN  /\ c = NoMember =>
                       /\ members[h].link_target_member = NoMember
                       /\ members[h].link_target_type = "None"
                /\ (c # NoMember /\ members[c].type # "HARDLINK") =>
                       /\ members[h].link_target_member = c
                       /\ members[h].link_target_type = members[c].type
                /\ (c # NoMember /\ members[c].type = "HARDLINK") =>
                       /\ members[h].link_target_member = members[c].link_target_member
                       /\ members[h].link_target_type = members[c].link_target_type
                /\ members[h].link_target_member = HardlinkChainEnd(h)

\* a chain f, g -> f, h -> g: the hardlink h, whose candidate g is a
\* hardlink, has the file f as its target
C32_Witness ==
    \E h \in DOMAIN members :
        LET g == LastNamedBefore(h)
        IN  /\ members[h].type = "HARDLINK"
            /\ g # NoMember
            /\ members[g].type = "HARDLINK"
            /\ members[g].link_target_member # NoMember
            /\ members[members[g].link_target_member].type = "FILE"
            /\ members[h].link_target_member = members[g].link_target_member
            /\ members[h].link_target_type = "FILE"

\* a hardlink whose target name was registered only after it is unresolved
C32_WitnessLater ==
    \E h \in DOMAIN members : \E c \in DOMAIN members :
        /\ members[h].type = "HARDLINK"
        /\ members[c].filename = members[h].link_target
        /\ members[c].member_id > members[h].member_id
        /\ NamedBefore(h) = {}
        /\ members[h].link_target_member = NoMember

----------------------------------------------------------------------------
(* Claims about running the resolver again (specification Spec).           *)

\* the members after _resolve_link_target(member h) on the registry as it
\* stands, the indices left alone
ResolvedOnce(h) ==
    ResolveLinkTarget(members, filename_to_members, normalized_path_to_last_member, h, {})

\* the members after a second run on the same member
ResolvedTwice(h) ==
    ResolveLinkTarget(ResolvedOnce(h), filename_to_members,
                      normalized_path_to_last_member, h, {})

\* C33: on the registry as it stands, a second run of the resolver on a
\* link member leaves every member's link_target_member and
\* link_target_type as the first run left them.
C33_ResolverIdempotent ==
    \A h \in DOMAIN members :
        IsLink(members[h]) => ResolvedTwice(h) = ResolvedOnce(h)

\* a link whose target was registered after it: the first run of the
\* resolver gives it a target it did not have, the second run changes
\* nothing
C33_Witness ==
    \E h \in DOMAIN members :
        /\ IsLink(members[h])
        /\ members[h].link_target_member = NoMember
        /\ ResolvedOnce(h)[h].link_target_member # NoMember
        /\ ResolvedTwice(h) = ResolvedOnce(h)

\* C34: once all members are registered, each symlink holds the
\* link_target_member and link_target_type that resolving it against the
\* registry as it stands gives.
C34_StoredSymlinkTargetIsFinal ==
    all_members_registered =>
        \A s \in DOMAIN members :
            members[s].type = "SYMLINK" =>
                /\ members[s].link_target_member = ResolvedOnce(s)[s].link_target_member
                /\ members[s].link_target_type = ResolvedOnce(s)[s].link_target_type

----------------------------------------------------------------------------
(* Claims about what iterations register (specification SpecReader).       *)

\* C35: whatever calls the consumer makes, the registry never holds more
\* members than the decoder holds records.
C35_EachRecordRegisteredOnce == Len(members) <= Len(archive)

\* the member at the path symlink l points to when l is registered: the one
\* registered last among those of that normalized path up to l itself
PathTargetAtRegistration(l) ==
    LET at == {c \in DOMAIN members :
                   /\ NormPath(members[c].filename) = NormalizedLinkTarget(members[l])
                   /\ members[c].member_id <= members[l].member_id}
    IN  IF at = {} THEN NoMember
        ELSE CHOOSE c \in at : \A y \in at : members[y].member_id <= members[c].member_id

\* the members some iteration has yielded
YieldedByAny == UNION {Range(YieldedMembers(iters[i])) : i \in DOMAIN iters}

\* C36: the members an iteration passes over are registered like those it
\* yields: while the first iteration over a TAR is suspended the registry
\* holds one member for every record read, and once an iteration over a ZIP
\* or RAR has started it holds one for every record; every member, yielded
\* or not, has a member_id, is in by_id and in by_filename, and its
\* normalized path is taken by it or by a later member; a hardlink has the
\* target its candidates give and a symlink whose path held a member that is
\* not a link when it was registered has that member as its target, whether
\* or not the target was yielded.
C36_DroppedMembersAreRegistered ==
    /\ (kind \in TarKinds /\ Len(iters) = 1 /\ gen.state = "suspended"
            /\ ~all_members_registered) =>
           (Len(members) = gen.idx /\ Len(members) = tar_members_read)
    /\ (kind \in {"ZIP", "RAR"} /\ Len(iters) >= 1
            /\ iters[1].status \in {"suspended", "finished"}) =>
           Len(members) = Len(archive)
    /\ \A h \in DOMAIN members :
           LET m == members[h]
           IN  /\ m.member_id > 0
               /\ h \in Range(member_id_to_member)
               /\ m.filename \in DOMAIN filename_to_members
               /\ h \in Range(filename_to_members[m.filename])
               /\ NormPath(m.filename) \in DOMAIN normalized_path_to_last_member
               /\ members[normalized_path_to_last_member[NormPath(m.filename)]].member_id
                      >= m.member_id
               /\ m.type = "HARDLINK" => m.link_target_member = HardlinkChainEnd(h)
               /\ (/\ m.type = "SYMLINK"
                   /\ PathTargetAtRegistration(h) # NoMember
                   /\ ~IsLink(members[PathTargetAtRegistration(h)])) =>
                      m.link_target_member = PathTargetAtRegistration(h)

\* one iteration with a filter has ended; it yielded a link whose target is
\* a member registered before it that no iteration yielded
C36_Witness ==
    /\ Len(iters) = 1
    /\ iters[1].status = "finished"
    /\ iters[1].flt.given
    /\ \E l \in YieldedByAny :
           /\ IsLink(members[l])
           /\ members[l].link_target_member # NoMember
           /\ members[l].link_target_member \notin YieldedByAny
           /\ members[l].link_target_member < l

----------------------------------------------------------------------------
(* Specification SpecExtract: extractall with the calls it makes on its    *)
(* ExtractionHelper and on the reader, on a reader of any class, before    *)
(* and after get_members and close. The helper is a collaborator: a call   *)
(* of extract_member is recorded and returns, or raises when it is the     *)
(* call chosen to fail.                                                    *)

\* the extract_member call that raises, counted from 1; 0 for none
MaxFail == 3

\* has_random_access(): RarStreamReader overrides it to return False
\* (rar_reader.py 667-668), every other class returns _random_access_supported
HasRandomAccess(k) == IF k = "RARSTREAM" THEN FALSE ELSE RandomAccessSupported(k)

\* extraction_helper.extract_member(member, stream), call number x.n + 1
HelperExtractMember(x, member, stream, pass) ==
    [x EXCEPT !.n = @ + 1,
              !.calls = Append(@, [call |-> "extract_member", member |-> member,
                                   stream |-> stream, pass |-> pass]),
              !.error = IF x.n + 1 = x.fail THEN "ArchiveExtractError" ELSE @]

\* self.open(member, pwd=pwd) in the pending-file pass
PendingOpen(x, o, member) ==
    [x EXCEPT !.w = o.w, !.error = o.error,
              !.calls = Append(@, [call |-> "open", member |-> member,
                                   stream |-> FALSE, pass |-> "pending"])]

\* lines 335-340: the main walk over get_members() from list[i] on
RECURSIVE WalkMembers(_, _, _, _, _)
WalkMembers(x, sel, flt, list, i) ==
    IF x.error # "none" \/ i > Len(list) THEN x
    ELSE With(ApplyFilter(sel, flt, x.w.reg.members, list[i]),
              LAMBDA filtered :
                  IF filtered.error # "none" THEN [x EXCEPT !.error = filtered.error]
                  ELSE IF filtered.member = NoMember
                  THEN WalkMembers(x, sel, flt, list, i + 1)
                  ELSE WalkMembers(HelperExtractMember(x, list[i], FALSE, "walk"),
                                   sel, flt, list, i + 1))

\* extraction_helper.get_pending_extractions(): the files the walk handed
\* over without a stream, in the order of the walk
RECURSIVE PendingExtractions(_, _)
PendingExtractions(mem, calls) ==
    IF calls = <<>> THEN <<>>
    ELSE IF Head(calls).call = "extract_member" /\ IsFile(mem[Head(calls).member])
    THEN <<Head(calls).member>> \o PendingExtractions(mem, Tail(calls))
    ELSE PendingExtractions(mem, Tail(calls))

\* ArchiveReader._extract_pending_files from members_to_extract[i] on
RECURSIVE ExtractPendingFiles(_, _, _, _)
ExtractPendingFiles(k, x, members_to_extract, i) ==
    IF x.error # "none" \/ i > Len(members_to_extract) THEN x
    ELSE LET member == members_to_extract[i]
         IN  IF IsFile(x.w.reg.members[member])
             THEN With(PendingOpen(x, OpenOf(k, x.w, member), member),
                       LAMBDA opened :
                           IF opened.error # "none" THEN opened
                           ELSE ExtractPendingFiles(
                                    k, HelperExtractMember(opened, member, TRUE, "pending"),
                                    members_to_extract, i + 1))
             ELSE ExtractPendingFiles(k, HelperExtractMember(x, member, FALSE, "pending"),
                                      members_to_extract, i + 1)

\* ArchiveReader._extractall_with_random_access
ExtractallWithRandomAccess(k, x, sel, flt) ==
    With(GetMembersOf(k, x.w),
         LAMBDA gm :
             IF gm.error # "none" THEN [x EXCEPT !.w = gm.w, !.error = gm.error]
             ELSE With(WalkMembers([x EXCEPT !.w = gm.w], sel, flt, gm.list, 1),
                       LAMBDA walked :
                           IF walked.error # "none" THEN walked
                           ELSE ExtractPendingFiles(
                                    k, walked,
                                    PendingExtractions(walked.w.reg.members, walked.calls),
                                    1)))

\* ArchiveReader._extractall_with_streaming_mode: the loop over
\* iter_members_with_io(filter=filter_func), generator frame f
RECURSIVE ExtractallWithStreamingMode(_, _)
ExtractallWithStreamingMode(x, f) ==
    With(Resume(x.w, f),
         LAMBDA r :
             IF r.error # "none" THEN [x EXCEPT !.w = r.w, !.error = r.error]
             ELSE IF r.f.state # "suspended" THEN [x EXCEPT !.w = r.w]
             ELSE With(HelperExtractMember([x EXCEPT !.w = r.w], r.out[1].member,
                                           r.out[1].stream # "None", "stream"),
                       LAMBDA x1 : IF x1.error # "none" THEN x1
                                   ELSE ExtractallWithStreamingMode(x1, r.f)))

\* an extractall that applies the metadata in a finally block
ApplyMetadataAlways(x) ==
    [x EXCEPT !.calls = Append(@, [call |-> "apply_metadata", member |-> NoMember,
                                   stream |-> FALSE, pass |-> "metadata"])]

\* line 391: extraction_helper.apply_metadata(), reached when nothing raised
ApplyMetadata(x) ==
    IF x.error # "none" THEN x
    ELSE [x EXCEPT !.calls = Append(@, [call |-> "apply_metadata", member |-> NoMember,
                                        stream |-> FALSE, pass |-> "metadata"])]

\* ArchiveReader.extractall: what it leaves behind, the calls it made, the
\* branch of line 382 it took and the can_process_pending_extractions it
\* gave the helper (line 379)
ExtractallCalls(k, w, sel, flt, fail) ==
    LET x == [w |-> w, error |-> "none", calls |-> <<>>, n |-> 0, fail |-> fail]
    IN  With(IF RandomAccessSupported(k)
             THEN ExtractallWithRandomAccess(k, x, sel, flt)
             ELSE ExtractallWithStreamingMode(x, NewFrame(k, sel, flt)),
             LAMBDA done :
                 [w |-> done.w, error |-> ApplyMetadata(done).error,
                  calls |-> ApplyMetadata(done).calls,
                  path |-> IF RandomAccessSupported(k) THEN "random_access"
                           ELSE "streaming",
                  can_process_pending_extractions |-> HasRandomAccess(k)])

\* reader.extractall(members=sel, filter=flt)
ExtractallWith(sel, flt, fail) ==
    /\ \E r \in {ExtractallCalls(kind, World, sel, flt, fail)} :
           /\ SetWorld(r.w)
           /\ ret' = [op |-> "extractall", error |-> r.error, calls |-> r.calls,
                      path |-> r.path,
                      can_process_pending_extractions |-> r.can_process_pending_extractions]
    /\ UNCHANGED <<concvars, kind, archive, tarvars, gen, iters, lifevars, streamvars>>

NextExtract ==
    \/ \E call \in Calls : \E fail \in 0..MaxFail : ExtractallWith(call.sel, call.flt, fail)
    \/ GetMembers
    \/ Close("reader")

SpecExtract == InitReader /\ [][NextExtract]_vars

----------------------------------------------------------------------------
(* Claims about extractall (specification SpecExtract).                    *)

\* the positions in the calls of an extractall of the calls of one pass
CallsOfPass(pass) == {i \in DOMAIN ret.calls : ret.calls[i].pass = pass}

\* C37: in an extractall every extract_member of the main walk comes before
\* every call of the pending-file pass, every call of the pending-file pass
\* comes before apply_metadata, and apply_metadata is called once when the
\* extractall returns and not at all when it raises.
C37_ExtractallPassesInOrder ==
    ret.op = "extractall" =>
        /\ \A i \in CallsOfPass("walk") : \A j \in CallsOfPass("pending") : i < j
        /\ \A i \in CallsOfPass("walk") \cup CallsOfPass("pending") \cup CallsOfPass("stream") :
               \A j \in CallsOfPass("metadata") : i < j
        /\ Cardinality(CallsOfPass("metadata")) = (IF ret.error = "none" THEN 1 ELSE 0)

\* an extractall with a main walk of two members and a pending-file pass
\* has returned, and one whose pending-file pass raised has not applied the
\* metadata
C37_Witness ==
    /\ ret.op = "extractall"
    /\ ret.error = "none"
    /\ Cardinality(CallsOfPass("walk")) = MaxRecords
    /\ CallsOfPass("pending") # {}
    /\ CallsOfPass("metadata") # {}

C37_WitnessRaised ==
    /\ ret.op = "extractall"
    /\ ret.error # "none"
    /\ CallsOfPass("walk") # {}
    /\ CallsOfPass("pending") # {}
    /\ CallsOfPass("metadata") = {}

\* the calls of open in the calls of an extractall
OpenCalls == {i \in DOMAIN ret.calls : ret.calls[i].call = "open"}

\* C38: extractall opens members one by one through open() only on a reader
\* whose has_random_access() is true; a reader whose has_random_access() is
\* false is extracted through iter_members_with_io and never has open()
\* called on it, and the can_process_pending_extractions given to the helper
\* agrees with the path taken.
C38_ExtractallPathFollowsRandomAccess ==
    ret.op = "extractall" =>
        /\ ret.path = "random_access" => HasRandomAccess(kind)
        /\ ~HasRandomAccess(kind) => ret.path = "streaming" /\ OpenCalls = {}
        /\ ret.can_process_pending_extractions = (ret.path = "random_access")

\* a RAR streaming reader has been extracted by the walk over get_members,
\* its helper told that pending extractions cannot be processed, and the
\* pending-file pass has called open() on it
C38_RarStreamTakesRandomAccessPath ==
    /\ kind = "RARSTREAM"
    /\ ret.op = "extractall"
    /\ ret.path = "random_access"
    /\ ~ret.can_process_pending_extractions
    /\ OpenCalls # {}
    /\ ret.error = "ValueError: does not support opening"

----------------------------------------------------------------------------
(* Specification SpecTarOnce: the two TarReader modes under repeated       *)
(* iteration, get_members, open and close.                                 *)

InitTarOnce == InitReader /\ kind \in TarKinds

NextTarOnce ==
    \/ \E call \in Calls : IterMembersWithIo(call.sel, call.flt)
    \/ Advance
    \/ Abandon
    \/ GetMembers
    \/ \E h \in DOMAIN members : ReaderOpen(h)
    \/ Close("reader")

SpecTarOnce == InitTarOnce /\ [][NextTarOnce]_vars

\* the first next() on a generator made when the registry held a member
LaterFirstAdvance ==
    /\ Len(member_id_to_member) > 0
    /\ gen.state = "created"
    /\ Advance

\* C39: on a streaming-only TAR reader, once an iteration has registered a
\* member, the first next() of every later iter_members_with_io raises,
\* yields no pair and registers no member; get_members and open raise on
\* such a reader whenever they are called.
C39_StreamingTarIteratesOnce ==
    [][kind = "TARSTREAM" =>
           /\ LaterFirstAdvance =>
                  /\ ret'.error # "none"
                  /\ gen'.state = "raised"
                  /\ iters'[ThisIter].out = <<>>
                  /\ members' = members
                  /\ member_id_to_member' = member_id_to_member
           /\ GetMembers => ret'.error # "none" /\ members' = members
           /\ (\E h \in DOMAIN members : ReaderOpen(h)) => ret'.error # "none"]_vars

\* on a streaming-only TAR reader a first iteration registered both records
\* and the second one was refused at its first next()
C39_Witness ==
    /\ kind = "TARSTREAM"
    /\ archive_open
    /\ Len(iters) = 2
    /\ iters[1].upto = MaxRecords
    /\ iters[2].status = "raised"
    /\ iters[2].error = "ValueError: can only iterate once"
    /\ iters[2].out = <<>>
    /\ Len(members) = MaxRecords

============================================================================
